---- MODULE Spec2Model ----
(***************************************************************************)
(* Model of plugins/janus_auviousrecordplay.c: the .mjr container indexer  *)
(* (janus_auviousrecordplay_get_frames), the playout thread                *)
(* (janus_auviousrecordplay_playout_thread) and the recordings registry as *)
(* driven by the handler thread and the hangup/destroy callbacks.          *)
(*                                                                         *)
(* Three specifications share the module:                                  *)
(*   SpecFrames   - get_frames run on a bounded container file;            *)
(*   SpecPlayout  - one playout thread with its clock and the threads that *)
(*                  can cancel it;                                         *)
(*   SpecRegistry - sessions, recordings and the registry.                 *)
(* Each specification keeps the variables of the other two parts fixed.    *)
(***************************************************************************)
EXTENDS Integers, Naturals, Sequences, FiniteSets, TLC

VARIABLES
    \* ---- get_frames (lines 1921-2229)
    file,           \* the container: a sequence of records
    gf_pc,          \* "pass1" | "pass2" | "done"
    offset,         \* long offset: byte offset of the record being read
    parsed_header,  \* gboolean parsed_header
    first_ts,       \* uint32_t first_ts
    last_ts,        \* uint32_t last_ts
    reset,          \* uint32_t reset
    pkts,           \* the heap of frame packets allocated so far (g_malloc order)
    list,           \* janus_auviousrecordplay_frame_packet *list (0 = NULL)
    last,           \* janus_auviousrecordplay_frame_packet *last (0 = NULL)
    ret,            \* "none" while running, then "NULL" or "list"
    \* ---- the session and recording as the playout thread sees them
    destroyed,      \* session->destroyed
    active,         \* session->active
    hangingup,      \* session->hangingup
    recorder,       \* session->recorder
    recording,      \* session->recording (FALSE = NULL)
    rec_destroyed,  \* rec->destroyed
    aframes,        \* session->aframes: [pkts, list]
    vframes,        \* session->vframes: [pkts, list]
    audio_pt,       \* rec->audio_pt
    \* ---- playout thread (lines 2231-2503)
    pt_pc,          \* "unspawned" | "start" | "timer" | "top" | "sleep" | "audio" | "video"
                    \* | "leave" | "done" | "crashed"
    audio,          \* frame_packet *audio (0 = NULL)
    video,          \* frame_packet *video (0 = NULL)
    asent,          \* gboolean asent
    vsent,          \* gboolean vsent
    abefore,        \* struct timeval abefore: [sec, usec]
    vbefore,        \* struct timeval vbefore: [sec, usec]
    clock,          \* the wall clock gettimeofday reads, in microseconds
    arelayed,       \* audio packets handed to gateway->relay_rtp, in order
    vrelayed,       \* video packets handed to gateway->relay_rtp, in order
    cancelled,      \* history: [seen, a, v], the relayed counts when a liveness flag first changed
    \* ---- the registry of recordings and the handler thread (lines 1232-1919)
    sessions,       \* GHashTable *sessions with the fields of each session
    sessions_mutex, \* 0 = free, otherwise the handle whose callback holds it
    hu,             \* the callback holding it: [destroy, rec], rec the recording it removes
    recs,           \* the recording objects allocated so far
    recordings,     \* GHashTable *recordings: id -> recording (0 = no entry)
    recordings_mutex, \* "free" | "handler" | "callback"
    files,          \* the recorder files created by janus_recorder_create
    hd_pc,          \* "idle" | "new" | "random" | "create" | "insert"
    hd_msg,         \* the message the handler is working on
    hd_id,          \* guint64 id
    pushed,         \* the last event given to gateway->push_event
    \* ---- the lifetime of the recordings: reference counts, viewers, completion
    heap,           \* the janus_auviousrecordplay_recording objects allocated so far
    table,          \* GHashTable *recordings: id -> recording (0 = no entry)
    table_mutex,    \* recordings_mutex: "free" | "list"
    users,          \* GHashTable *sessions with the fields of each session
    users_mutex,    \* sessions_mutex: [holder, rec, destroy], holder the handle being hung up (0 = free)
    play,           \* the play request the handler is working on: [handle, rec]
    reply,          \* the event the last step pushed: [status, code, warning, audio, video]
    listed,         \* the ids in the last "list" response
    player,         \* of each session, where the frame lists are followed: aframes and
                    \* vframes are set, and its playout thread:
                    \* [aframes, vframes, thread], thread "none" | "started" | "loop"
    \* ---- the end of the playout thread (lines 2463-2502)
    viewer,         \* the session is in rec->viewers
    closes,         \* the calls of gateway->close_pc(session->handle) by the thread so far
    held,           \* the references the thread holds: a subset of {"rec", "session"}
    stopped,        \* what the session was doing when its last "stop" request was
                    \* answered: "recording" | "replaying" | "idle" ("none": no stop yet)
    \* ---- parse_codec (lines 462-593)
    source,         \* the container parse_codec is given
    mcodec,         \* "none" before the call, then the codec name or "NULL"
    \* ---- one viewer session, its frame lists and its playout threads
    sess,           \* the fields of the janus_auviousrecordplay_session (session->...)
    peer,           \* the PeerConnection of the handle: "none" | "offered" | "up"
    frames,         \* the lists get_frames has returned so far: "live" | "freed" | "freed twice"
    threads,        \* the playout threads spawned so far: [pc, rec, audio, video]
    viewers,        \* rec->viewers of each recording: a sequence of handles
    rec_mutex,      \* rec->mutex of each recording: the thread holding it (0 = free)
    gone,           \* the recordings removed from the table (rec->destroyed)
    appending,      \* the g_list_append the handler is in: [rec, read] (rec = 0: none)
    dones,          \* the 'done' events pushed since session->hangingup was last set to 0
    releases,       \* the recordings hangup_media_internal has released since then
    \* ---- the queue of asynchronous requests (lines 867-1023 and 1232-1919)
    messages,       \* GAsyncQueue *messages: the requests queued, oldest first
    known,          \* the handles that have a session in the table
    leaked,         \* sessions_mutex is locked and its owner has returned
    hq_pc,          \* the handler thread: "pop" | "lock" | "handle"
    current,        \* janus_auviousrecordplay_message *msg of the handler
    events,         \* the events the handler has pushed with a transaction, in order
    returned,       \* what handle_message returned, call by call: [handle, request, result]
    \* ---- the recorders of one session (session->arc, session->vrc, session->rec_mutex)
    rsess,          \* the session: [recorder, arc, vrc, hangingup, destroyed] (0 = NULL)
    recorders,      \* the janus_recorder objects created so far: "open" | "destroyed"
    rmutex,         \* session->rec_mutex: "free" or the code that holds it
    rtp,            \* the incoming_rtp call in progress: [pc, video, rc]
    hup,            \* the hangup in progress: [pc, destroy]
    touch           \* the last access to a recorder handle: [op, by, mutex, state]

gfvars == <<file, gf_pc, offset, parsed_header, first_ts, last_ts, reset, pkts, list, last, ret>>

sessvars == <<destroyed, active, hangingup, recorder, recording, rec_destroyed, aframes, vframes, audio_pt>>

ptvars == <<pt_pc, audio, video, asent, vsent, abefore, vbefore, clock, arelayed, vrelayed, cancelled>>

rgvars == <<sessions, sessions_mutex, hu, recs, recordings, recordings_mutex, files,
            hd_pc, hd_msg, hd_id, pushed>>

ltvars == <<heap, table, table_mutex, users, users_mutex, play, reply, listed, player>>

exvars == <<viewer, closes, held, stopped>>

pcvars == <<source, mcodec>>

owvars == <<sess, peer, frames, threads, viewers, rec_mutex, gone, appending, dones, releases>>

aqvars == <<messages, known, leaked, hq_pc, current, events, returned>>

rcvars == <<rsess, recorders, rmutex, rtp, hup, touch>>

vars == <<gfvars, sessvars, ptvars, rgvars, ltvars, exvars, pcvars, owvars, aqvars, rcvars>>

(***************************************************************************)
(* Unsigned 32/64-bit values.  TLC integers are 32-bit signed, so a value  *)
(* v is kept exactly as two limbs: v = hi * 2^16 + lo.                     *)
(***************************************************************************)
Base == 2^16

N(n) == [hi |-> n \div Base, lo |-> n % Base]

Lt(a, b) == a.hi < b.hi \/ (a.hi = b.hi /\ a.lo < b.lo)

Le(a, b) == a = b \/ Lt(a, b)

\* a - b for a >= b (the code only subtracts in that case)
Sub(a, b) ==
    IF a.lo >= b.lo
    THEN [hi |-> a.hi - b.hi, lo |-> a.lo - b.lo]
    ELSE [hi |-> a.hi - b.hi - 1, lo |-> a.lo + Base - b.lo]

Add(a, b) ==
    LET s == a.lo + b.lo
    IN  [hi |-> a.hi + b.hi + (s \div Base), lo |-> s % Base]

Zero == N(0)

UINT32_MAX == [hi |-> Base - 1, lo |-> Base - 1]

\* uint64_t max32 = UINT32_MAX; max32++;
Max32 == Add(UINT32_MAX, N(1))

Abs(x) == IF x < 0 THEN -x ELSE x

(***************************************************************************)
(* The container file.  A record is the 8-byte magic, the 2-byte length    *)
(* and the payload; the model keeps what get_frames reads of it:           *)
(*   m    first magic byte, t  second magic byte ("E", "J" or another),    *)
(*   w47  magic bytes 4..7 read as a big-endian 32-bit word,               *)
(*   len  the payload length,                                              *)
(*   body "rtp" (an RTP packet), "v"/"a"/"x" (first byte of a 5-byte       *)
(*        legacy payload) or "json" (the info header),                     *)
(*   ts, seq  the RTP timestamp and sequence number of an "rtp" body,      *)
(*   json the outcome of decoding a "json" body, j47 its bytes 4..7,       *)
(*   cut  how much of the record the file holds: "none" (all of it),       *)
(*        "magic" (the file ends inside the 8-byte magic) or "payload"     *)
(*        (the file ends right after the length).                          *)
(***************************************************************************)
\* "MEETECHO"[4..7] = 'E','C','H','O' = 0x4543484F
EchoWord == [hi |-> 17731, lo |-> 18511]

\* '"', ':', ' ', '"' (bytes 4..7 of {"t": "a", ...) = 0x223A2022
JsonWord == [hi |-> 8762, lo |-> 8226]

Media(ts, seq) ==
    [m |-> "M", t |-> "E", w47 |-> EchoWord, len |-> 100, body |-> "rtp",
     ts |-> ts, seq |-> seq, json |-> "none", j47 |-> Zero, cut |-> "none"]

LegacyHeader(c) ==
    [m |-> "M", t |-> "E", w47 |-> EchoWord, len |-> 5, body |-> c,
     ts |-> Zero, seq |-> 0, json |-> "none", j47 |-> Zero, cut |-> "none"]

InfoHeader(j) ==
    [m |-> "M", t |-> "J", w47 |-> N(0), len |-> 60, body |-> "json",
     ts |-> Zero, seq |-> 0, json |-> j, j47 |-> JsonWord, cut |-> "none"]

\* bytes of one record: 8 (magic) + 2 (length) + payload
RecSize(r) == 8 + 2 + r.len

\* the bytes of a record that are in the file
Have(r) ==
    IF r.cut = "magic" THEN 4
    ELSE IF r.cut = "payload" THEN 8 + 2
    ELSE RecSize(r)

\* "MEETECHO"[2..3] = 'E','T' = 0x4554: what ntohs(rtp->seq_number) reads
\* when prebuffer still holds the magic
MagicSeq == 17748

RECURSIVE StartOf(_, _)
StartOf(f, i) == IF i <= 1 THEN 0 ELSE StartOf(f, i - 1) + Have(f[i - 1])

\* fseek(file, 0L, SEEK_END); fsize = ftell(file)
FSize(f) == StartOf(f, Len(f) + 1)

\* the record that starts at byte offset off
RecAt(f, off) == CHOOSE i \in 1..Len(f) : StartOf(f, i) = off

(***************************************************************************)
(* Pass 1: looking for timestamp resets (lines 1950-2094)                  *)
(***************************************************************************)
\* ntohl(rtp->timestamp) after fread(prebuffer, 1, 16, file) at line 2073.
\* consumed: the payload of record i was already read (the info header), so
\* the 16 bytes are the start of the next record, or, at the end of the
\* file, nothing is read and prebuffer still holds the JSON text.
\* The result of fread is not looked at: when the file ends before the
\* payload, prebuffer still holds the magic of the record.
Pass1Ts(f, i, consumed) ==
    IF consumed
    THEN IF i < Len(f) /\ Have(f[i + 1]) >= 8 THEN f[i + 1].w47 ELSE f[i].j47
    ELSE IF f[i].cut = "payload" THEN f[i].w47 ELSE f[i].ts

\* lines 2075-2079
FirstTsAfter(first, lastts, ts) ==
    IF lastts = Zero
    THEN IF Lt(N(1000 * 1000), ts) THEN Sub(ts, N(1000 * 1000)) ELSE ts
    ELSE first

\* lines 2079-2090
ResetAfter(rst, lastts, ts) ==
    IF lastts = Zero THEN rst
    ELSE IF Lt(ts, lastts)
         THEN IF Lt(N(2 * 1000 * 1000 * 1000), Sub(lastts, ts)) THEN ts ELSE rst
         ELSE IF Lt(ts, rst) THEN ts ELSE rst

\* return NULL (fclose(file); return NULL;)
GfReturnNull ==
    /\ gf_pc' = "done"
    /\ ret' = "NULL"
    /\ UNCHANGED <<file, offset, parsed_header, first_ts, last_ts, reset, pkts, list, last>>

\* continue; with offset moved past the record
GfSkip(r, ph) ==
    /\ offset' = offset + RecSize(r)
    /\ parsed_header' = ph
    /\ UNCHANGED <<file, gf_pc, first_ts, last_ts, reset, pkts, list, last, ret>>

\* lines 2072-2093
GfReadTs(r, ph, ts) ==
    /\ first_ts' = FirstTsAfter(first_ts, last_ts, ts)
    /\ reset' = ResetAfter(reset, last_ts, ts)
    /\ last_ts' = ts
    /\ offset' = offset + RecSize(r)
    /\ parsed_header' = ph
    /\ UNCHANGED <<file, gf_pc, pkts, list, last, ret>>

\* one iteration of the first while loop
Pass1Step ==
    /\ gf_pc = "pass1"
    /\ offset < FSize(file)
    /\ LET i == RecAt(file, offset)
           r == file[i]
       IN  IF Have(r) < 8 \/ r.m # "M" THEN GfReturnNull
           ELSE IF r.t = "E"
           THEN IF r.len = 5 /\ ~parsed_header
                THEN IF r.body \in {"v", "a"} THEN GfSkip(r, TRUE) ELSE GfReturnNull
                ELSE IF r.len < 12 THEN GfSkip(r, parsed_header)
                ELSE GfReadTs(r, parsed_header, Pass1Ts(file, i, FALSE))
           ELSE IF r.t = "J"
           THEN IF r.len > 0 /\ ~parsed_header
                THEN IF r.json # "ok" THEN GfReturnNull
                     ELSE GfReadTs(r, TRUE, Pass1Ts(file, i, TRUE))
                ELSE GfReadTs(r, parsed_header, Pass1Ts(file, i, FALSE))
           ELSE GfReturnNull
    /\ UNCHANGED <<sessvars, ptvars, rgvars, ltvars, exvars, pcvars, owvars, aqvars, rcvars>>

\* lines 2095-2097: offset = 0; list = NULL; last = NULL
Pass1End ==
    /\ gf_pc = "pass1"
    /\ offset >= FSize(file)
    /\ gf_pc' = "pass2"
    /\ offset' = 0
    /\ list' = 0
    /\ last' = 0
    /\ UNCHANGED <<file, parsed_header, first_ts, last_ts, reset, pkts, ret>>
    /\ UNCHANGED <<sessvars, ptvars, rgvars, ltvars, exvars, pcvars, owvars, aqvars, rcvars>>

(***************************************************************************)
(* Pass 2: parse the frames and order them (lines 2098-2214)               *)
(***************************************************************************)
\* lines 2127-2141: p->ts from the raw timestamp
ExtendedTs(rst, first, raw) ==
    IF rst = Zero THEN raw
    ELSE IF Lt(first, raw) THEN raw
         ELSE Add(Max32, raw)

\* the comparison without the wraparound test
SeqPrecedes_Naive(tmpseq, pseq) == tmpseq < pseq

\* lines 2171 and 2185: with equal timestamps, p is put after tmp
SeqPrecedes(tmpseq, pseq) ==
    \/ (tmpseq < pseq /\ Abs(tmpseq - pseq) < 10000)
    \/ (tmpseq > pseq /\ Abs(tmpseq - pseq) > 10000)

\* a scan that stops at an equal timestamp whatever the sequence numbers
InsertAfter_IgnoreSeq(tmp, p) == Le(tmp.ts, p.ts)

\* lines 2155 and 2169-2199: the tests that end the backward scan at tmp
InsertAfter(tmp, p) ==
    \/ Lt(tmp.ts, p.ts)
    \/ (tmp.ts = p.ts /\ SeqPrecedes(tmp.seq, p.seq))

\* lines 2153-2203: while(tmp) { ...; tmp = tmp->prev; }
\* the packet after which p is inserted, 0 when the start was reached
RECURSIVE ScanBack(_, _, _)
ScanBack(pk, tmp, p) ==
    IF tmp = 0 THEN 0
    ELSE IF InsertAfter(pk[tmp], p) THEN tmp
    ELSE ScanBack(pk, pk[tmp].prev, p)

\* an insertion in the middle that leaves the successor's prev untouched
InsertOrdered_NoBackLink(pk, head, tail, p) ==
    LET n == Len(pk) + 1
        q == [p EXCEPT !.next = 0, !.prev = 0]
    IN  IF head = 0
        THEN [pkts |-> Append(pk, q), list |-> n, last |-> n]
        ELSE LET tmp == ScanBack(pk, tail, q)
             IN  IF tmp # 0
                 THEN LET nx == pk[tmp].next
                          pk2 == [pk EXCEPT ![tmp].next = n]
                      IN  [pkts |-> Append(pk2, [q EXCEPT !.next = nx, !.prev = tmp]),
                           list |-> head,
                           last |-> IF nx # 0 THEN tail ELSE n]
                 ELSE [pkts |-> Append([pk EXCEPT ![head].prev = n],
                                       [q EXCEPT !.next = head]),
                       list |-> n,
                       last |-> tail]

\* lines 2144-2210: link packet p (allocated as number n) into the list
\* result: the heap, the head and the tail
InsertOrdered(pk, head, tail, p) ==
    LET n == Len(pk) + 1
        q == [p EXCEPT !.next = 0, !.prev = 0]
    IN  IF head = 0
        THEN [pkts |-> Append(pk, q), list |-> n, last |-> n]
        ELSE LET tmp == ScanBack(pk, tail, q)
             IN  IF tmp # 0
                 THEN LET nx == pk[tmp].next
                          pk1 == IF nx # 0 THEN [pk EXCEPT ![nx].prev = n] ELSE pk
                          pk2 == [pk1 EXCEPT ![tmp].next = n]
                      IN  [pkts |-> Append(pk2, [q EXCEPT !.next = nx, !.prev = tmp]),
                           list |-> head,
                           last |-> IF nx # 0 THEN tail ELSE n]
                 ELSE [pkts |-> Append([pk EXCEPT ![head].prev = n],
                                       [q EXCEPT !.next = head]),
                       list |-> n,
                       last |-> tail]

\* lines 2116-2124: the RTP header as prebuffer holds it after the fread,
\* whose result is only compared with 0 from below
Pass2Rtp_WholeHeader(r) == [seq |-> r.seq, ts |-> r.ts]

Pass2Rtp(r) ==
    IF r.cut = "payload" THEN [seq |-> MagicSeq, ts |-> r.w47]
    ELSE [seq |-> r.seq, ts |-> r.ts]

\* one iteration of the second while loop
Pass2Step ==
    /\ gf_pc = "pass2"
    /\ offset < FSize(file)
    /\ LET r == file[RecAt(file, offset)]
       IN  IF r.t = "J" \/ r.len < 12
           THEN /\ offset' = offset + RecSize(r)
                /\ UNCHANGED <<pkts, list, last>>
           ELSE LET raw == Pass2Rtp(r)
                    p == [seq |-> raw.seq,
                          ts |-> ExtendedTs(reset, first_ts, raw.ts),
                          len |-> r.len,
                          offset |-> offset + 8 + 2,
                          next |-> 0, prev |-> 0]
                    res == InsertOrdered(pkts, list, last, p)
                IN  /\ pkts' = res.pkts
                    /\ list' = res.list
                    /\ last' = res.last
                    /\ offset' = offset + RecSize(r)
    /\ UNCHANGED <<file, gf_pc, parsed_header, first_ts, last_ts, reset, ret>>
    /\ UNCHANGED <<sessvars, ptvars, rgvars, ltvars, exvars, pcvars, owvars, aqvars, rcvars>>

\* lines 2216-2228: fclose(file); return list;
Pass2End ==
    /\ gf_pc = "pass2"
    /\ offset >= FSize(file)
    /\ gf_pc' = "done"
    /\ ret' = IF list = 0 THEN "NULL" ELSE "list"
    /\ UNCHANGED <<file, offset, parsed_header, first_ts, last_ts, reset, pkts, list, last>>
    /\ UNCHANGED <<sessvars, ptvars, rgvars, ltvars, exvars, pcvars, owvars, aqvars, rcvars>>

(***************************************************************************)
(* The files get_frames is run on                                          *)
(***************************************************************************)
MaxMedia == 3

M32(n) == Sub(Max32, N(n))

TsSet == {Zero, N(3000), M32(6000), M32(3000)}

SeqSet == {10, 9000, 10010, 18000, 65530}

\* every timestamp with one sequence number, and every sequence number at one
\* timestamp (the packets of one frame)
MediaSet == {Media(t, 10) : t \in TsSet} \cup {Media(N(3000), s) : s \in SeqSet}

HeaderSet == {<<>>, <<LegacyHeader("v")>>, <<LegacyHeader("x")>>,
              <<InfoHeader("ok")>>, <<InfoHeader("bad")>>}

RECURSIVE SeqsUpTo(_, _)
SeqsUpTo(S, n) ==
    IF n = 0 THEN {<<>>}
    ELSE LET R == SeqsUpTo(S, n - 1)
         IN  R \cup {Append(q, x) : q \in {t \in R : Len(t) = n - 1}, x \in S}

\* how a file ends: complete, inside a magic, after a length, or with a
\* record whose magic is not one the code knows
TailSet == {<<>>,
            <<[Media(N(3000), 10) EXCEPT !.cut = "magic"]>>,
            <<[Media(N(3000), 10) EXCEPT !.cut = "payload"]>>,
            <<[Media(N(3000), 10) EXCEPT !.m = "X"]>>,
            <<[Media(N(3000), 10) EXCEPT !.t = "Q"]>>}

Files == {h \o b \o t : h \in HeaderSet, b \in SeqsUpTo(MediaSet, MaxMedia), t \in TailSet}

\* a NULL frame list
NullList == [pkts |-> <<>>, list |-> 0]

\* no session and no playout thread
IdlePlayout ==
    /\ destroyed = FALSE
    /\ active = FALSE
    /\ hangingup = 0
    /\ recorder = FALSE
    /\ recording = FALSE
    /\ rec_destroyed = FALSE
    /\ aframes = NullList
    /\ vframes = NullList
    /\ audio_pt = 0
    /\ pt_pc = "done"
    /\ audio = 0
    /\ video = 0
    /\ asent = FALSE
    /\ vsent = FALSE
    /\ abefore = [sec |-> 0, usec |-> 0]
    /\ vbefore = [sec |-> 0, usec |-> 0]
    /\ clock = 0
    /\ arelayed = <<>>
    /\ vrelayed = <<>>
    /\ cancelled = [seen |-> FALSE, a |-> 0, v |-> 0]
    /\ viewer = FALSE
    /\ closes = 0
    /\ held = {}
    /\ stopped = "none"

\* the handles the core has created sessions for
Handles == {1, 2}

\* a request without an "id"
NoId == -1

\* no message
NoMsg == [handle |-> 0]

\* lines 788-817, janus_auviousrecordplay_create_session
NewSession == [present |-> TRUE, recorder |-> FALSE, recording |-> 0, arc |-> 0, vrc |-> 0,
               hangingup |-> 0]

\* the ids a request or janus_random_uint64 may name
Ids == 0..2

\* lines 707-714: empty tables, the handler waiting on its queue
IdleRegistry ==
    /\ sessions = [h \in Handles |-> NewSession]
    /\ sessions_mutex = 0
    /\ hu = [destroy |-> FALSE, rec |-> 0]
    /\ recs = <<>>
    /\ recordings = [k \in Ids |-> 0]
    /\ recordings_mutex = "free"
    /\ files = {}
    /\ hd_pc = "idle"
    /\ hd_msg = NoMsg
    /\ hd_id = 0
    /\ pushed = [handle |-> 0, error_code |-> 0]

\* the sessions of the lifetime part
Users == {1, 2, 3}

\* lines 788-817, janus_auviousrecordplay_create_session
NewUser == [present |-> TRUE, recorder |-> FALSE, recording |-> 0, arc |-> FALSE, vrc |-> FALSE,
            hangingup |-> 0]

\* the ids a request or janus_random_uint64 may name in the lifetime part
Keys == {1}

NoPlay == [handle |-> 0, rec |-> 0]

\* lines 798-799: session->aframes = NULL, session->vframes = NULL; no thread
NoFrames == [aframes |-> FALSE, vframes |-> FALSE, thread |-> "none"]

NoHangup == [holder |-> 0, rec |-> 0, destroy |-> FALSE]

NoReply == [status |-> "none", code |-> 0, warning |-> "none", audio |-> FALSE, video |-> FALSE]

NoTouch == [op |-> "none", by |-> "none", mutex |-> "free", state |-> "none"]

NoRtp == [pc |-> "idle", video |-> FALSE, rc |-> 0]

NoHup == [pc |-> "idle", destroy |-> FALSE]

\* lines 788-817, create_session: no recorder, rec_mutex initialised
IdleRecorder ==
    /\ rsess = [recorder |-> FALSE, arc |-> 0, vrc |-> 0, hangingup |-> 0, destroyed |-> FALSE]
    /\ recorders = <<>>
    /\ rmutex = "free"
    /\ rtp = NoRtp
    /\ hup = NoHup
    /\ touch = NoTouch

\* lines 707-714: empty tables, nothing in flight
IdleLifetime ==
    /\ heap = <<>>
    /\ table = [k \in Keys |-> 0]
    /\ table_mutex = "free"
    /\ users = [h \in Users |-> NewUser]
    /\ users_mutex = NoHangup
    /\ play = NoPlay
    /\ reply = NoReply
    /\ listed = {}
    /\ player = [h \in Users |-> NoFrames]

\* the recordings a viewer can ask for
Recs == {1, 2}

\* a session as create_session leaves it (lines 788-817), with no thread
NewViewer ==
    [active |-> FALSE, destroyed |-> FALSE, hangingup |-> 0, recorder |-> FALSE,
     recording |-> 0, aframes |-> 0, vframes |-> 0]

NoAppend == [rec |-> 0, read |-> <<>>]

IdleOwner ==
    /\ sess = NewViewer
    /\ peer = "none"
    /\ frames = <<>>
    /\ threads = <<>>
    /\ viewers = [r \in Recs |-> <<>>]
    /\ rec_mutex = [r \in Recs |-> 0]
    /\ gone = {}
    /\ appending = NoAppend
    /\ dones = 0
    /\ releases = 0

\* the handles of the queue part
Callers == {1, 2}

NoMessage == [handle |-> 0, transaction |-> 0, request |-> "none"]

\* lines 660-726 and 788-817: the plugin is initialised, the sessions exist,
\* the handler thread waits for a message
IdleAsync ==
    /\ messages = <<>>
    /\ known = Callers
    /\ leaked = FALSE
    /\ hq_pc = "pop"
    /\ current = NoMessage
    /\ events = <<>>
    /\ returned = <<>>

\* parse_codec has not been called
IdleCodec ==
    /\ source = <<>>
    /\ mcodec = "none"

\* get_frames entered on a file (lines 1940-1948)
GfEntry(f) ==
    /\ file = f
    /\ gf_pc = "pass1"
    /\ offset = 0
    /\ parsed_header = FALSE
    /\ first_ts = Zero
    /\ last_ts = Zero
    /\ reset = Zero
    /\ pkts = <<>>
    /\ list = 0
    /\ last = 0
    /\ ret = "none"

\* get_frames not running
IdleFrames ==
    /\ file = <<>>
    /\ gf_pc = "done"
    /\ offset = 0
    /\ parsed_header = FALSE
    /\ first_ts = Zero
    /\ last_ts = Zero
    /\ reset = Zero
    /\ pkts = <<>>
    /\ list = 0
    /\ last = 0
    /\ ret = "none"

InitFrames ==
    /\ \E f \in Files : GfEntry(f)
    /\ IdlePlayout
    /\ IdleRegistry
    /\ IdleLifetime
    /\ IdleCodec
    /\ IdleOwner
    /\ IdleAsync
    /\ IdleRecorder

NextFrames ==
    \/ Pass1Step
    \/ Pass1End
    \/ Pass2Step
    \/ Pass2End

SpecFrames == InitFrames /\ [][NextFrames]_vars

(***************************************************************************)
(* The returned list, read through its links                               *)
(***************************************************************************)
\* the packets from packet i on, following next (at most n of them)
RECURSIVE Walk(_, _, _)
Walk(pk, i, n) ==
    IF i = 0 \/ n = 0 THEN <<>> ELSE <<i>> \o Walk(pk, pk[i].next, n - 1)

ListOrder == Walk(pkts, list, Len(pkts))

\* position of packet i in the list (0 when it is not linked)
PosOf(i) ==
    IF \E k \in 1..Len(ListOrder) : ListOrder[k] = i
    THEN CHOOSE k \in 1..Len(ListOrder) : ListOrder[k] = i
    ELSE 0

Returned == gf_pc = "done" /\ ret = "list"

\* the wraparound-aware comparison as the specification words it
ClaimPrecedes(x, y) ==
    \/ (x < y /\ Abs(x - y) < 10000)
    \/ (x > y /\ Abs(x - y) > 10000)

\* C1: a returned list is sorted: each adjacent pair (a, b = a.next) has
\* a.ts <= b.ts and, when the timestamps are equal, the sequence number of b
\* does not precede that of a under the wraparound-aware comparison.
C1_ListSorted ==
    Returned =>
        \A k \in 1..(Len(ListOrder) - 1) :
            LET a == pkts[ListOrder[k]]
                b == pkts[ListOrder[k + 1]]
            IN  /\ Le(a.ts, b.ts)
                /\ (a.ts = b.ts => ~ClaimPrecedes(b.seq, a.seq))

\* a returned list of three packets or more, two of them sharing a timestamp,
\* whose order is not the order of the file
C1_Witness ==
    /\ Returned
    /\ Len(ListOrder) >= 3
    /\ \E k \in 1..(Len(ListOrder) - 1) :
          /\ pkts[ListOrder[k]].ts = pkts[ListOrder[k + 1]].ts
          /\ pkts[ListOrder[k]].seq # pkts[ListOrder[k + 1]].seq
    /\ \E k \in 1..(Len(ListOrder) - 1) :
          pkts[ListOrder[k]].offset > pkts[ListOrder[k + 1]].offset

(***************************************************************************)
(* Timestamp wraparound                                                    *)
(***************************************************************************)
\* the records pass 2 turns into frame packets
MediaIdx(f) == {i \in 1..Len(f) : f[i].t # "J" /\ f[i].len >= 12}

\* a container get_frames has no reason to reject
ValidContainer(f) ==
    \A i \in 1..Len(f) :
        \/ i \in MediaIdx(f) /\ f[i].m = "M" /\ f[i].t = "E"
        \/ i = 1 /\ f[i] \in {LegacyHeader("v"), LegacyHeader("a"), InfoHeader("ok")}

\* the packet made from record i
PktOfRec(i) == CHOOSE n \in 1..Len(pkts) : pkts[n].offset = StartOf(file, i) + 8 + 2

NearMax(t) == t.hi >= 3 * 2^14      \* t >= 3 * 2^30
Small(t) == t.hi < 2^14             \* t < 2^30

\* the media timestamps rise to near 2^32 up to record k, wrap to a small
\* value at the next media record and keep rising
WrapsAfter(f, k) ==
    /\ k \in MediaIdx(f)
    /\ \E j \in MediaIdx(f) : j > k
    /\ \A i \in MediaIdx(f) : IF i <= k THEN NearMax(f[i].ts) ELSE Small(f[i].ts)
    /\ \A i, j \in MediaIdx(f) :
          (i < j /\ ((i <= k) = (j <= k))) => Le(f[i].ts, f[j].ts)

\* C2: when the raw timestamps of a container rise to near 2^32, wrap to a
\* small value (0 included) and keep rising, get_frames returns a list in
\* which the records before the wrap keep their raw timestamp and the
\* records after it get raw + 2^32, so the extended timestamps are
\* non-decreasing in file order.
C2_WrapMonotonic ==
    \A k \in 1..Len(file) :
        (gf_pc = "done" /\ ValidContainer(file) /\ WrapsAfter(file, k)) =>
            /\ ret = "list"
            /\ \A i \in MediaIdx(file) :
                  pkts[PktOfRec(i)].ts =
                      IF i <= k THEN file[i].ts ELSE Add(Max32, file[i].ts)
            /\ \A i, j \in MediaIdx(file) :
                  i < j => Le(pkts[PktOfRec(i)].ts, pkts[PktOfRec(j)].ts)

\* the same statement for a wrap to a value other than 0
C2_WrapToNonZero ==
    \A k \in 1..Len(file) :
        (/\ gf_pc = "done" /\ ValidContainer(file) /\ WrapsAfter(file, k)
         /\ \A i \in MediaIdx(file) : file[i].ts # Zero) =>
            /\ ret = "list"
            /\ \A i \in MediaIdx(file) :
                  pkts[PktOfRec(i)].ts =
                      IF i <= k THEN file[i].ts ELSE Add(Max32, file[i].ts)

\* a wrap to a nonzero value was indexed
C2_WrapToNonZeroSeen ==
    /\ Returned
    /\ \E k \in 1..Len(file) :
          /\ WrapsAfter(file, k)
          /\ ValidContainer(file)
          /\ \A i \in MediaIdx(file) : file[i].ts # Zero

(***************************************************************************)
(* Sequence-number wraparound among packets of one timestamp               *)
(***************************************************************************)
\* the sequence numbers of the packets with extended timestamp t
SeqsAt(t) == {pkts[n].seq : n \in {m \in 1..Len(pkts) : pkts[m].ts = t}}

\* the wraparound-aware comparison orders the packets of timestamp t
\* consistently (it does not for 10, 9000 and 18000: 10 precedes 9000, 9000
\* precedes 18000 and 18000 precedes 10)
TransitiveAt(t) ==
    \A x, y, z \in SeqsAt(t) :
        (ClaimPrecedes(x, y) /\ ClaimPrecedes(y, z)) => ClaimPrecedes(x, z)

\* C3 as stated: of any two packets with the same timestamp whose sequence
\* numbers differ by more than 10000, the numerically larger one comes first
\* in the returned list, whatever their order in the file.
C3_LargerSeqFirst ==
    Returned =>
        \A i, j \in 1..Len(pkts) :
            (pkts[i].ts = pkts[j].ts /\ pkts[i].seq - pkts[j].seq > 10000)
                => PosOf(i) < PosOf(j)

\* C3 as amended: the same, provided the wraparound-aware comparison is
\* transitive among the sequence numbers of the packets sharing that
\* timestamp.
C3_LargerSeqFirstIfTransitive ==
    Returned =>
        \A i, j \in 1..Len(pkts) :
            (/\ pkts[i].ts = pkts[j].ts
             /\ pkts[i].seq - pkts[j].seq > 10000
             /\ TransitiveAt(pkts[i].ts))
                => PosOf(i) < PosOf(j)

\* the larger sequence number comes later in the file and first in the list,
\* among three distinct sequence numbers of one timestamp
C3_Witness ==
    /\ Returned
    /\ \E i, j \in 1..Len(pkts) :
          /\ pkts[i].ts = pkts[j].ts
          /\ pkts[i].seq - pkts[j].seq > 10000
          /\ pkts[i].offset > pkts[j].offset
          /\ PosOf(i) < PosOf(j)
          /\ TransitiveAt(pkts[i].ts)
          /\ Cardinality(SeqsAt(pkts[i].ts)) >= 3

(***************************************************************************)
(* The playout thread, janus_auviousrecordplay_playout_thread, with the    *)
(* callbacks that change the flags it polls.                               *)
(***************************************************************************)

\* the value of a small 64-bit quantity as an integer
ToInt(a) == a.hi * Base + a.lo

\* struct timeval filled by gettimeofday
Now == [sec |-> clock \div (1000 * 1000), usec |-> clock % (1000 * 1000)]

\* a rate that ignores the payload type
Akhz_Always48(pt) == 48

\* lines 2313-2315
Akhz(pt) == IF pt = 0 \/ pt = 8 \/ pt = 9 THEN 8 ELSE 48

\* line 2316
Vkhz == 90

\* lines 2348-2349 and 2415-2416: ts_diff in microseconds for the packet at cur
TsDiff(fr, cur, khz) ==
    (ToInt(Sub(fr.pkts[cur].ts, fr.pkts[fr.pkts[cur].prev].ts)) * 1000) \div khz

\* lines 2352-2358 and 2419-2425
Passed(now, before) ==
    LET d_s == now.sec - before.sec
        d_us == now.usec - before.usec
    IN  IF d_us < 0 THEN (d_s - 1) * 1000000 + (d_us + 1000000)
        ELSE d_s * 1000000 + d_us

\* a test with a margin of 10 ms
TooEarly_Wide(passed, ts_diff) == passed < ts_diff - 10000

\* lines 2359 and 2426
TooEarly(passed, ts_diff) == passed < ts_diff - 5000

\* lines 2363-2371 and 2430-2438
UpdateReference(before, ts_diff) ==
    LET u1 == before.usec + (ts_diff % 1000000)
        s2 == IF u1 > 1000000 THEN before.sec + 1 ELSE before.sec
        u2 == IF u1 > 1000000 THEN u1 - 1000000 ELSE u1
        q  == ts_diff \div 1000000
    IN  IF q > 0 THEN [sec |-> s2 + q, usec |-> u2 - q]
        ELSE [sec |-> s2, usec |-> u2]

\* a loop body run once only
Burst_OnlyOne(fr, v, ts) == IF v # 0 /\ fr.pkts[v].ts = ts THEN <<v>> ELSE <<>>

\* lines 2394-2408 and 2441-2456: the packets the inner while relays from v on

RECURSIVE Burst(_, _, _)
Burst(fr, v, ts) ==
    IF v # 0 /\ fr.pkts[v].ts = ts THEN <<v>> \o Burst(fr, fr.pkts[v].next, ts) ELSE <<>>

\* the cursor after relaying the packets of b
AfterBurst(fr, b) == fr.pkts[b[Len(b)]].next

\* a cursor that moves two packets on
NextPkt_SkipOne(fr, a) ==
    IF fr.pkts[a].next # 0 THEN fr.pkts[fr.pkts[a].next].next ELSE 0

\* audio = audio->next (lines 2345 and 2386)
NextPkt(fr, a) == fr.pkts[a].next

\* a condition that does not look at the recording
LoopCondition_NoRecCheck == ~destroyed /\ active /\ (audio # 0 \/ video # 0)

\* lines 2318-2319
LoopCondition == ~destroyed /\ active /\ ~rec_destroyed /\ (audio # 0 \/ video # 0)

MaxClock == 1100000

MaxHangingup == 1

\* by how much g_usleep may return late
Oversleep == {0, 995000}

\* the clock at the spawn: at a second boundary and just before one
StartClocks == {0, 990000}

\* ---- the thread, one action per stretch between two reads of shared state

\* lines 2233-2295: the checks before the loop; fopen may fail
PtStart ==
    /\ pt_pc = "start"
    /\ IF ~recording \/ recorder \/ (aframes.list = 0 /\ vframes.list = 0)
       THEN /\ pt_pc' = "done"
            /\ held' = {}
       ELSE \E opened \in BOOLEAN :
                /\ pt_pc' = IF opened THEN "timer" ELSE "done"
                /\ held' = IF opened THEN {"rec", "session"} ELSE {}
    /\ UNCHANGED <<audio, video, asent, vsent, abefore, vbefore, clock, arelayed, vrelayed, cancelled>>
    /\ UNCHANGED <<viewer, closes, stopped>>
    /\ UNCHANGED <<sessvars, gfvars, rgvars, ltvars, pcvars, owvars, aqvars, rcvars>>

\* lines 2297-2316: session->recording is read again at line 2310 without a lock
PtTimer ==
    /\ pt_pc = "timer"
    /\ IF ~recording
       THEN /\ pt_pc' = "crashed"
            /\ UNCHANGED <<audio, video, asent, vsent, abefore, vbefore>>
       ELSE /\ pt_pc' = "top"
            /\ asent' = FALSE
            /\ vsent' = FALSE
            /\ abefore' = Now
            /\ vbefore' = Now
            /\ audio' = aframes.list
            /\ video' = vframes.list
    /\ UNCHANGED <<clock, arelayed, vrelayed, cancelled>>
    /\ UNCHANGED <<sessvars, gfvars, rgvars, ltvars, exvars, pcvars, owvars, aqvars, rcvars>>

\* a round counted as skipped as soon as one track relayed nothing
SkippedRound_EitherTrack(a, v) == ~a \/ ~v

\* line 2320: if(!asent && !vsent), "we skipped the last round"
SkippedRound(a, v) == ~a /\ ~v

\* lines 2318-2320: the condition of the while, then the test for the sleep
PtTop ==
    /\ pt_pc = "top"
    /\ pt_pc' = IF LoopCondition
                THEN IF SkippedRound(asent, vsent) THEN "sleep" ELSE "audio"
                ELSE "leave"
    /\ UNCHANGED <<audio, video, asent, vsent, abefore, vbefore, clock, arelayed, vrelayed, cancelled>>
    /\ UNCHANGED <<sessvars, gfvars, rgvars, ltvars, exvars, pcvars, owvars, aqvars, rcvars>>

\* lines 2320-2323: g_usleep(5000) returns after 5000 us or later
PtSleep ==
    /\ pt_pc = "sleep"
    /\ \E late \in Oversleep :
        /\ clock + 5000 + late <= MaxClock
        /\ clock' = clock + 5000 + late
    /\ pt_pc' = "audio"
    /\ UNCHANGED <<audio, video, asent, vsent, abefore, vbefore, arelayed, vrelayed, cancelled>>
    /\ UNCHANGED <<sessvars, gfvars, rgvars, ltvars, exvars, pcvars, owvars, aqvars, rcvars>>

\* lines 2324-2389
PtAudio ==
    /\ pt_pc = "audio"
    /\ pt_pc' = "video"
    /\ vsent' = FALSE
    /\ IF audio = 0
       THEN /\ asent' = FALSE
            /\ UNCHANGED <<audio, abefore, arelayed>>
       ELSE IF audio = aframes.list
       THEN /\ arelayed' = Append(arelayed, audio)
            /\ abefore' = Now
            /\ asent' = TRUE
            /\ audio' = NextPkt(aframes, audio)
       ELSE LET ts_diff == TsDiff(aframes, audio, Akhz(audio_pt))
                passed == Passed(Now, abefore)
            IN  IF TooEarly(passed, ts_diff)
                THEN /\ asent' = FALSE
                     /\ UNCHANGED <<audio, abefore, arelayed>>
                ELSE /\ abefore' = UpdateReference(abefore, ts_diff)
                     /\ arelayed' = Append(arelayed, audio)
                     /\ asent' = TRUE
                     /\ audio' = NextPkt(aframes, audio)
    /\ UNCHANGED <<video, vbefore, clock, vrelayed, cancelled>>
    /\ UNCHANGED <<sessvars, gfvars, rgvars, ltvars, exvars, pcvars, owvars, aqvars, rcvars>>

\* lines 2390-2460
PtVideo ==
    /\ pt_pc = "video"
    /\ pt_pc' = "top"
    /\ IF video = 0
       THEN UNCHANGED <<video, vsent, vbefore, vrelayed>>
       ELSE IF video = vframes.list
       THEN LET b == Burst(vframes, video, vframes.pkts[video].ts)
            IN  /\ vrelayed' = vrelayed \o b
                /\ video' = AfterBurst(vframes, b)
                /\ vsent' = TRUE
                /\ vbefore' = Now
       ELSE LET ts_diff == TsDiff(vframes, video, Vkhz)
                passed == Passed(Now, vbefore)
            IN  IF TooEarly(passed, ts_diff)
                THEN /\ vsent' = FALSE
                     /\ UNCHANGED <<video, vbefore, vrelayed>>
                ELSE LET b == Burst(vframes, video, vframes.pkts[video].ts)
                     IN  /\ vbefore' = UpdateReference(vbefore, ts_diff)
                         /\ vrelayed' = vrelayed \o b
                         /\ video' = AfterBurst(vframes, b)
                         /\ vsent' = TRUE
    /\ UNCHANGED <<audio, asent, abefore, clock, arelayed, cancelled>>
    /\ UNCHANGED <<sessvars, gfvars, rgvars, ltvars, exvars, pcvars, owvars, aqvars, rcvars>>

\* an end of the thread that drops the references right after the indexes
AfterLeave_UnrefFirst(pc) ==
    IF pc = "leave" THEN "unref" ELSE "done"

\* lines 2463-2502: the order of the statements after the loop
AfterLeave(pc) ==
    IF pc = "leave" THEN "unview"
    ELSE IF pc = "unview" THEN "close"
    ELSE IF pc = "close" THEN "unref"
    ELSE "done"

\* lines 2463-2487: the indexes are freed and the files closed
PtLeave ==
    /\ pt_pc = "leave"
    /\ pt_pc' = AfterLeave(pt_pc)
    /\ aframes' = NullList
    /\ vframes' = NullList
    /\ audio' = 0
    /\ video' = 0
    /\ UNCHANGED <<asent, vsent, abefore, vbefore, clock, arelayed, vrelayed, cancelled>>
    /\ UNCHANGED <<destroyed, active, hangingup, recorder, recording, rec_destroyed, audio_pt>>
    /\ UNCHANGED <<gfvars, rgvars, ltvars, exvars, pcvars, owvars, aqvars, rcvars>>

\* lines 2489-2492: rec->viewers = g_list_remove(rec->viewers, session)
PtUnview ==
    /\ pt_pc = "unview"
    /\ pt_pc' = AfterLeave(pt_pc)
    /\ viewer' = FALSE
    /\ UNCHANGED <<closes, held, stopped>>
    /\ UNCHANGED <<audio, video, asent, vsent, abefore, vbefore, clock, arelayed, vrelayed, cancelled>>
    /\ UNCHANGED <<sessvars, gfvars, rgvars, ltvars, pcvars, owvars, aqvars, rcvars>>

\* line 2495: gateway->close_pc(session->handle); the core calls hangup_media
\* later, from a thread of its own
PtClosePc ==
    /\ pt_pc = "close"
    /\ pt_pc' = AfterLeave(pt_pc)
    /\ closes' = closes + 1
    /\ UNCHANGED <<viewer, held, stopped>>
    /\ UNCHANGED <<audio, video, asent, vsent, abefore, vbefore, clock, arelayed, vrelayed, cancelled>>
    /\ UNCHANGED <<sessvars, gfvars, rgvars, ltvars, pcvars, owvars, aqvars, rcvars>>

\* lines 2497-2498: janus_refcount_decrease of rec->ref and session->ref
PtUnref ==
    /\ pt_pc = "unref"
    /\ pt_pc' = AfterLeave(pt_pc)
    /\ held' = {}
    /\ UNCHANGED <<viewer, closes, stopped>>
    /\ UNCHANGED <<audio, video, asent, vsent, abefore, vbefore, clock, arelayed, vrelayed, cancelled>>
    /\ UNCHANGED <<sessvars, gfvars, rgvars, ltvars, pcvars, owvars, aqvars, rcvars>>

\* ---- the callbacks of the core and of other sessions

\* history: the relayed counts when a liveness flag first changes after the spawn
NoteChange(d, a, r) ==
    cancelled' = IF ~cancelled.seen /\ pt_pc # "unspawned"
                    /\ (d # destroyed \/ a # active \/ r # rec_destroyed)
                 THEN [seen |-> TRUE, a |-> Len(arelayed), v |-> Len(vrelayed)]
                 ELSE cancelled

\* lines 1184-1229, janus_auviousrecordplay_hangup_media_internal, run under
\* sessions_mutex; recordings_remove marks the recording destroyed (434-437)
HangupInternal(d, s) ==
    /\ stopped' = s
    /\ active' = FALSE
    /\ destroyed' = d
    /\ IF destroyed
       THEN /\ UNCHANGED <<hangingup, recording, rec_destroyed>>
            /\ NoteChange(d, FALSE, rec_destroyed)
       ELSE /\ hangingup' = hangingup + 1
            /\ IF hangingup # 0
               THEN /\ UNCHANGED <<recording, rec_destroyed>>
                    /\ NoteChange(d, FALSE, rec_destroyed)
               ELSE /\ recording' = FALSE
                    /\ rec_destroyed' = (recording \/ rec_destroyed)
                    /\ NoteChange(d, FALSE, recording \/ rec_destroyed)
    /\ UNCHANGED <<recorder, aframes, vframes, audio_pt>>
    /\ UNCHANGED <<pt_pc, audio, video, asent, vsent, abefore, vbefore, clock, arelayed, vrelayed>>
    /\ UNCHANGED <<viewer, closes, held>>
    /\ UNCHANGED <<gfvars, rgvars, ltvars, pcvars, owvars, aqvars, rcvars>>

\* lines 1169-1174, janus_auviousrecordplay_hangup_media
HangupMedia ==
    /\ ~destroyed
    /\ hangingup < MaxHangingup
    /\ HangupInternal(FALSE, stopped)

\* the places of the thread from its first statement to the end of its loop
Running == {"start", "timer", "top", "sleep", "audio", "video"}

\* lines 1612-1627, a "stop" request in the handler thread (which drops the
\* requests of destroyed sessions, lines 1246-1258): the "stopped" result and
\* janus_auviousrecordplay_hangup_media(session->handle)
StopRequest ==
    /\ ~destroyed
    /\ hangingup < MaxHangingup
    /\ HangupInternal(FALSE, IF recording /\ recorder THEN "recording"
                              ELSE IF pt_pc \in Running THEN "replaying"
                              ELSE "idle")

\* lines 819-836, janus_auviousrecordplay_destroy_session: the session leaves the
\* table, whose value destructor sets session->destroyed (420-423)
DestroySession ==
    /\ ~destroyed
    /\ HangupInternal(TRUE, stopped)

\* lines 1025-1059, janus_auviousrecordplay_setup_media, once per PeerConnection
SetupMedia ==
    /\ pt_pc = "unspawned"
    /\ ~destroyed
    /\ hangingup' = 0
    /\ active' = TRUE
    /\ IF ~recorder
       THEN \E spawned \in BOOLEAN :
                /\ pt_pc' = IF spawned THEN "start" ELSE "unspawned"
                /\ held' = IF spawned THEN {"session"} ELSE {}
       ELSE /\ pt_pc' = "unspawned"
            /\ held' = held
    /\ UNCHANGED <<viewer, closes, stopped>>
    /\ UNCHANGED <<destroyed, recorder, recording, rec_destroyed, aframes, vframes, audio_pt>>
    /\ UNCHANGED <<audio, video, asent, vsent, abefore, vbefore, clock, arelayed, vrelayed, cancelled>>
    /\ UNCHANGED <<gfvars, rgvars, ltvars, pcvars, owvars, aqvars, rcvars>>

\* lines 434-437, janus_auviousrecordplay_recording_destroy, when the hangup of
\* another session removes the recording from the table (lines 1176-1182)
RecordingDestroy ==
    /\ ~rec_destroyed
    /\ rec_destroyed' = TRUE
    /\ NoteChange(destroyed, active, TRUE)
    /\ UNCHANGED <<destroyed, active, hangingup, recorder, recording, aframes, vframes, audio_pt>>
    /\ UNCHANGED <<pt_pc, audio, video, asent, vsent, abefore, vbefore, clock, arelayed, vrelayed>>
    /\ UNCHANGED <<gfvars, rgvars, ltvars, exvars, pcvars, owvars, aqvars, rcvars>>

\* ---- the sessions a playout is started on

\* the index get_frames builds from records with these timestamps, in file order
RECURSIVE LinkAll(_, _)
LinkAll(q, n) ==
    IF n = 0 THEN [pkts |-> <<>>, list |-> 0, last |-> 0]
    ELSE LET r == LinkAll(q, n - 1)
             p == [seq |-> q[n].seq, ts |-> q[n].ts, len |-> 100,
                   offset |-> 8 + 2 + (n - 1) * (8 + 2 + 100), next |-> 0, prev |-> 0]
         IN  InsertOrdered(r.pkts, r.list, r.last, p)

FramesOf(q) == LET r == LinkAll(q, Len(q)) IN [pkts |-> r.pkts, list |-> r.list]

\* timestamps past a reset, as the extended 64-bit values
T0 == Add(Max32, N(500))

At(t, s) == [ts |-> Add(T0, N(t)), seq |-> s]

VideoLists ==
    {NullList,
     FramesOf(<<At(0, 1), At(0, 2), At(0, 3), At(3000, 4)>>),
     FramesOf(<<At(0, 1), At(90000, 2), At(90000, 3)>>)}

AudioLists ==
    {NullList,
     FramesOf(<<At(0, 1), At(960, 2), At(1920, 3)>>),
     FramesOf(<<At(0, 1), At(8000, 2)>>)}

InitPlayout ==
    /\ destroyed = FALSE
    /\ active = FALSE
    /\ hangingup = 0
    /\ recorder \in BOOLEAN
    /\ recording \in BOOLEAN
    /\ rec_destroyed = FALSE
    /\ aframes \in AudioLists
    /\ vframes \in VideoLists
    /\ audio_pt \in {0, 111}
    /\ pt_pc = "unspawned"
    /\ audio = 0
    /\ video = 0
    /\ asent = FALSE
    /\ vsent = FALSE
    /\ abefore = [sec |-> 0, usec |-> 0]
    /\ vbefore = [sec |-> 0, usec |-> 0]
    /\ clock \in StartClocks
    /\ arelayed = <<>>
    /\ vrelayed = <<>>
    /\ cancelled = [seen |-> FALSE, a |-> 0, v |-> 0]
    /\ viewer = (recording /\ ~recorder)
    /\ closes = 0
    /\ held = {}
    /\ stopped = "none"
    /\ IdleFrames
    /\ IdleRegistry
    /\ IdleLifetime
    /\ IdleCodec
    /\ IdleOwner
    /\ IdleAsync
    /\ IdleRecorder

NextPlayout ==
    \/ SetupMedia
    \/ PtStart
    \/ PtTimer
    \/ PtTop
    \/ PtSleep
    \/ PtAudio
    \/ PtVideo
    \/ PtLeave
    \/ PtUnview
    \/ PtClosePc
    \/ PtUnref
    \/ HangupMedia
    \/ StopRequest
    \/ DestroySession
    \/ RecordingDestroy

SpecPlayout == InitPlayout /\ [][NextPlayout]_vars

\* the thread is scheduled: none of the statements after the loop blocks
\* (rec->mutex is only ever held for one list operation)
PtEnd == PtLeave \/ PtUnview \/ PtClosePc \/ PtUnref

SpecPlayoutFair == SpecPlayout /\ WF_vars(PtEnd)

\* the thread is scheduled in every one of its steps
PtThread == PtStart \/ PtTimer \/ PtTop \/ PtSleep \/ PtAudio \/ PtVideo \/ PtEnd

SpecPlayoutLive == SpecPlayout /\ WF_vars(PtThread)

(***************************************************************************)
(* Properties of the playout thread                                        *)
(***************************************************************************)

\* the packets of an index in list order, from the head
OrderOf(fr) == Walk(fr.pkts, fr.list, Len(fr.pkts))

\* the thread holds its indexes: they are built and not yet freed
Playing == pt_pc \in {"top", "sleep", "audio", "video", "leave"}

\* the packets from v on that carry the timestamp of v
SameTsFrom(fr, v) ==
    SelectSeq(Walk(fr.pkts, v, Len(fr.pkts)), LAMBDA k : fr.pkts[k].ts = fr.pkts[v].ts)

\* the video cursor stands at the start of a run of equal timestamps
AtBurstStart ==
    video = 0 \/ video = vframes.list
        \/ vframes.pkts[video].ts # vframes.pkts[vframes.pkts[video].prev].ts

\* C4: all the consecutive video packets that share the current packet's
\* timestamp are relayed in one step of the loop, the video part of one tick; a
\* burst is never split, so between ticks the cursor is never inside a run of
\* equal timestamps, and the first packet with another timestamp is left for a
\* later tick.
C4_BurstInOneTick ==
    /\ [](Playing => AtBurstStart)
    /\ [][vrelayed' # vrelayed =>
            /\ pt_pc = "video" /\ pt_pc' = "top"
            /\ vrelayed' = vrelayed \o SameTsFrom(vframes, video)
            /\ video' = IF Len(vrelayed') < Len(OrderOf(vframes))
                        THEN OrderOf(vframes)[Len(vrelayed') + 1] ELSE 0]_vars

\* three records at T relayed together, the one at T+3000 on a later tick
C4_Witness ==
    /\ Playing
    /\ Len(OrderOf(vframes)) = 4
    /\ Len(vrelayed) = 4
    /\ vframes.pkts[vrelayed[1]].ts = vframes.pkts[vrelayed[3]].ts
    /\ vframes.pkts[vrelayed[4]].ts # vframes.pkts[vrelayed[3]].ts
    /\ clock >= 990000 + 30000

\* a reference instant in microseconds
Instant(tv) == tv.sec * 1000000 + tv.usec

\* the clock rate of a track in kHz, as the payload type decides
RateKHz(track) ==
    IF track = "video" THEN 90
    ELSE IF audio_pt \in {0, 8, 9} THEN 8 ELSE 48

\* the gap in microseconds the timestamps ask for between the packet at cur
\* and the one before it in the list
ExpectedGap(fr, cur, track) ==
    LET o == OrderOf(fr)
        k == CHOOSE j \in 1..Len(o) : o[j] = cur
    IN  (ToInt(Sub(fr.pkts[cur].ts, fr.pkts[o[k - 1]].ts)) * 1000) \div RateKHz(track)

\* the audio step handles a packet that is not the first of its track
AudioNonFirst == pt_pc = "audio" /\ pt_pc' = "video" /\ audio # 0 /\ audio # aframes.list

\* the video step handles a packet that is not the first of its track
VideoNonFirst == pt_pc = "video" /\ pt_pc' = "top" /\ video # 0 /\ video # vframes.list

\* C5: a packet that is not the first of its track is relayed on a tick only
\* if the time elapsed since the reference instant of the track is at least
\* expectedGap - 5000 microseconds (8 kHz for audio payload types 0, 8 and 9,
\* 48 kHz for other audio, 90 kHz for video); when less has elapsed, the cursor
\* and the reference instant of the track stay as they are.
C5_RelayOnlyWhenDue ==
    [][/\ AudioNonFirst =>
            IF clock - Instant(abefore) >= ExpectedGap(aframes, audio, "audio") - 5000
            THEN TRUE
            ELSE arelayed' = arelayed /\ audio' = audio /\ abefore' = abefore
       /\ VideoNonFirst =>
            IF clock - Instant(vbefore) >= ExpectedGap(vframes, video, "video") - 5000
            THEN TRUE
            ELSE vrelayed' = vrelayed /\ video' = video /\ vbefore' = vbefore]_vars

\* a second audio packet of an 8 kHz track and a second video burst were
\* relayed, each after ticks on which they were not yet due
C5_Witness ==
    /\ Playing
    /\ audio_pt = 0
    /\ Len(arelayed) >= 2
    /\ Len(vrelayed) = 4
    /\ Instant(abefore) = 5000 + 120000
    /\ Instant(vbefore) = 5000 + 33333
    /\ clock < 5000 + 120000

\* C6: whenever a packet that is not the first of its track (or a video burst)
\* is relayed, the reference instant of the track, read as
\* tv_sec * 10^6 + tv_usec, increases by exactly expectedGap, for every gap
\* including gaps of one second or more.
C6_ReferenceAdvancesByGap ==
    [][/\ (AudioNonFirst /\ arelayed' # arelayed) =>
            Instant(abefore') = Instant(abefore) + ExpectedGap(aframes, audio, "audio")
       /\ (VideoNonFirst /\ vrelayed' # vrelayed) =>
            Instant(vbefore') = Instant(vbefore) + ExpectedGap(vframes, video, "video")]_vars

\* the same for gaps shorter than one second
C6_AdvancesByGapBelowOneSecond ==
    [][/\ (AudioNonFirst /\ arelayed' # arelayed
              /\ ExpectedGap(aframes, audio, "audio") < 1000000) =>
            Instant(abefore') = Instant(abefore) + ExpectedGap(aframes, audio, "audio")
       /\ (VideoNonFirst /\ vrelayed' # vrelayed
              /\ ExpectedGap(vframes, video, "video") < 1000000) =>
            Instant(vbefore') = Instant(vbefore) + ExpectedGap(vframes, video, "video")]_vars

\* with a gap of one second the reference instant ends one microsecond short
C6_OneSecondGapSeen ==
    /\ Playing
    /\ Len(vrelayed) = 3
    /\ Len(OrderOf(vframes)) = 3
    /\ Instant(vbefore) = 5000 + 1000000 - 1

\* C7: within one track the packets are relayed in list order from the head:
\* what has been relayed so far is always a prefix of the list, and the cursor
\* is the packet after that prefix; nothing is skipped, repeated or reordered.
C7_RelayedIsPrefix ==
    Playing =>
        /\ Len(arelayed) <= Len(OrderOf(aframes))
        /\ arelayed = SubSeq(OrderOf(aframes), 1, Len(arelayed))
        /\ audio = IF Len(arelayed) < Len(OrderOf(aframes))
                   THEN OrderOf(aframes)[Len(arelayed) + 1] ELSE 0
        /\ Len(vrelayed) <= Len(OrderOf(vframes))
        /\ vrelayed = SubSeq(OrderOf(vframes), 1, Len(vrelayed))
        /\ video = IF Len(vrelayed) < Len(OrderOf(vframes))
                   THEN OrderOf(vframes)[Len(vrelayed) + 1] ELSE 0

\* both tracks played to the end without a hangup
C7_Witness ==
    /\ pt_pc = "leave"
    /\ Len(arelayed) = 3
    /\ Len(vrelayed) = 4
    /\ ~cancelled.seen

\* the thread enters a tick: the condition of the while held
TickStarts == pt_pc = "top" /\ pt_pc' \in {"sleep", "audio"}

\* the video packets relayed since the liveness flags first changed
SinceCancel == SubSeq(vrelayed, cancelled.v + 1, Len(vrelayed))

MaxRecs == 2

\* the requests: the message and its jsep, with well-formed parameters
\* ("name" present, "id" absent or not negative)
Requests ==
    [handle : Handles,
     request : {"record", "record-process-answer"},
     sdp_type : {"none", "offer", "answer"},
     parses : BOOLEAN,
     sdp_update : BOOLEAN,
     id : {NoId} \cup Ids]

\* the media the codecs of an SDP leave to record (lines 1381-1393)
Negotiated == {{"audio", "video"}}

\* the type of SDP a request must carry (lines 1291 and 1674)
WantedSdp(request) == IF request = "record" THEN "offer" ELSE "answer"

\* gateway->push_event with an error (lines 1904-1915) or a result (1877-1900)
Event(h, code) == [handle |-> h, error_code |-> code]

\* a lookup that finds nothing
IdExists_Never(id) == FALSE

\* lines 1350 and 1733: g_hash_table_lookup(recordings, &id) != NULL
IdExists(id) == recordings[id] # 0

\* a loop that takes the random value as it comes
RandomId_NoLookup(r) == r

\* lines 1362-1366 and 1745-1749: one turn of the loop with the random value r
RandomId(r) == IF recordings[r] # 0 THEN 0 ELSE r

\* lines 1239-1343 / 1673-1725: pop a message, validate it, and either answer
\* it (an error, or the update of a recorder) or go on to a new recording
HdPop ==
    /\ hd_pc = "idle"
    /\ sessions_mutex = 0
    /\ \E msg \in Requests :
        LET h == msg.handle
            session == sessions[h]
        IN  IF ~session.present
            THEN UNCHANGED <<sessions, hd_pc, hd_msg, pushed>>
            ELSE IF msg.sdp_type # WantedSdp(msg.request)
            THEN /\ pushed' = Event(h, 415)
                 /\ UNCHANGED <<sessions, hd_pc, hd_msg>>
            ELSE IF ~msg.parses
            THEN /\ pushed' = Event(h, 419)
                 /\ UNCHANGED <<sessions, hd_pc, hd_msg>>
            ELSE IF msg.sdp_update
            THEN IF ~session.recorder \/ session.recording = 0
                 THEN /\ pushed' = Event(h, 418)
                      /\ UNCHANGED <<sessions, hd_pc, hd_msg>>
                 ELSE /\ pushed' = Event(h, 0)
                      /\ \E do_update \in BOOLEAN :
                            sessions' = IF msg.request = "record" \/ do_update
                                        THEN [sessions EXCEPT ![h].hangingup = 0]
                                        ELSE sessions
                      /\ UNCHANGED <<hd_pc, hd_msg>>
            ELSE /\ hd_pc' = "new"
                 /\ hd_msg' = msg
                 /\ UNCHANGED <<sessions, pushed>>
    /\ UNCHANGED <<sessions_mutex, hu, recs, recordings, recordings_mutex, files, hd_id>>
    /\ UNCHANGED <<gfvars, sessvars, ptvars, ltvars, exvars, pcvars, owvars, aqvars, rcvars>>

\* lines 1344-1360 / 1727-1743: take recordings_mutex and look the requested id up
HdLock ==
    /\ hd_pc = "new"
    /\ recordings_mutex = "free"
    /\ IF hd_msg.id # NoId /\ hd_msg.id > 0 /\ IdExists(hd_msg.id)
       THEN /\ pushed' = Event(hd_msg.handle, 420)
            /\ hd_pc' = "idle"
            /\ hd_msg' = NoMsg
            /\ UNCHANGED <<recordings_mutex, hd_id>>
       ELSE /\ Len(recs) < MaxRecs
            /\ recordings_mutex' = "handler"
            /\ hd_id' = IF hd_msg.id # NoId THEN hd_msg.id ELSE 0
            /\ hd_pc' = IF hd_id' = 0 THEN "random" ELSE "create"
            /\ UNCHANGED <<pushed, hd_msg>>
    /\ UNCHANGED <<sessions, sessions_mutex, hu, recs, recordings, files>>
    /\ UNCHANGED <<gfvars, sessvars, ptvars, ltvars, exvars, pcvars, owvars, aqvars, rcvars>>

\* lines 1361-1367 / 1744-1750: while(id == 0)
HdRandom ==
    /\ hd_pc = "random"
    /\ \E r \in Ids :
        /\ hd_id' = RandomId(r)
        /\ hd_pc' = IF hd_id' = 0 THEN "random" ELSE "create"
    /\ UNCHANGED <<sessions, sessions_mutex, hu, recs, recordings, recordings_mutex, files,
                   hd_msg, pushed>>
    /\ UNCHANGED <<gfvars, sessvars, ptvars, ltvars, exvars, pcvars, owvars, aqvars, rcvars>>

\* lines 1370-1437 / 1753-1820: the recording object, the recorder files the
\* negotiated codecs ask for, and the fields of the session
HdCreate ==
    /\ hd_pc = "create"
    /\ LET n == Len(recs) + 1
           h == hd_msg.handle
       IN  /\ recs' = Append(recs, [id |-> hd_id, destroyed |-> FALSE])
           /\ \E tracks \in Negotiated :
               /\ files' = files \cup {<<n, t>> : t \in tracks}
               /\ sessions' = [sessions EXCEPT
                                 ![h].arc = IF "audio" \in tracks THEN n ELSE @,
                                 ![h].vrc = IF "video" \in tracks THEN n ELSE @,
                                 ![h].recorder = TRUE,
                                 ![h].recording = n]
    /\ hd_pc' = "insert"
    /\ UNCHANGED <<sessions_mutex, hu, recordings, recordings_mutex, hd_msg, hd_id, pushed>>
    /\ UNCHANGED <<gfvars, sessvars, ptvars, ltvars, exvars, pcvars, owvars, aqvars, rcvars>>

\* g_hash_table_insert: an entry under the same key is replaced, and the table's
\* value destructor (lines 434-437) marks the recording it held as destroyed
TableInsert(k, r) ==
    /\ recordings' = [recordings EXCEPT ![k] = r]
    /\ recs' = IF recordings[k] # 0 /\ recordings[k] # r
               THEN [recs EXCEPT ![recordings[k]].destroyed = TRUE]
               ELSE recs

\* lines 1438-1481 and 1877-1903 / 1821-1869: insert, unlock, answer
HdInsert ==
    /\ hd_pc = "insert"
    /\ LET h == hd_msg.handle
       IN  /\ TableInsert(hd_id, Len(recs))
           /\ recordings_mutex' = "free"
           /\ pushed' = Event(h, 0)
           /\ sessions' = IF hd_msg.request = "record"
                          THEN [sessions EXCEPT ![h].hangingup = 0]
                          ELSE sessions
    /\ hd_pc' = "idle"
    /\ hd_msg' = NoMsg
    /\ UNCHANGED <<sessions_mutex, hu, files, hd_id>>
    /\ UNCHANGED <<gfvars, sessvars, ptvars, ltvars, exvars, pcvars, owvars, aqvars, rcvars>>

\* g_hash_table_remove by key: the entry found, whichever recording it holds,
\* is handed to the value destructor (lines 434-437)
TableRemove(k) ==
    /\ recordings' = [recordings EXCEPT ![k] = 0]
    /\ recs' = IF recordings[k] # 0
               THEN [recs EXCEPT ![recordings[k]].destroyed = TRUE]
               ELSE recs

\* lines 1184-1223 under sessions_mutex (taken at 1171 or 824): the "done" event
\* is pushed and the recorders are closed; the removal of the recording waits for recordings_mutex
HangupBegin ==
    /\ sessions_mutex = 0
    /\ \E h \in Handles, destroy \in BOOLEAN :
        LET session == sessions[h]
            first == session.hangingup = 0
        IN  /\ session.present
            /\ session.hangingup < MaxHangingup
            /\ sessions' = [sessions EXCEPT
                              ![h].hangingup = @ + 1,
                              ![h].arc = IF first THEN 0 ELSE @,
                              ![h].vrc = IF first THEN 0 ELSE @,
                              ![h].present = IF first /\ session.recording # 0
                                             THEN @ ELSE ~destroy]
            /\ pushed' = IF first THEN Event(h, 0) ELSE pushed
            /\ IF first /\ session.recording # 0
               THEN /\ sessions_mutex' = h
                    /\ hu' = [destroy |-> destroy, rec |-> session.recording]
               ELSE UNCHANGED <<sessions_mutex, hu>>
    /\ UNCHANGED <<recs, recordings, recordings_mutex, files, hd_pc, hd_msg, hd_id>>
    /\ UNCHANGED <<gfvars, sessvars, ptvars, ltvars, exvars, pcvars, owvars, aqvars, rcvars>>

\* lines 1224-1228 and 1176-1182: recordings_remove, session->recording = NULL;
\* then sessions_mutex is released, after destroy_session has removed the session
HangupRemove ==
    /\ sessions_mutex # 0
    /\ recordings_mutex = "free"
    /\ TableRemove(recs[hu.rec].id)
    /\ sessions' = [sessions EXCEPT
                      ![sessions_mutex].recording = 0,
                      ![sessions_mutex].present = ~hu.destroy]
    /\ sessions_mutex' = 0
    /\ hu' = [destroy |-> FALSE, rec |-> 0]
    /\ UNCHANGED <<recordings_mutex, files, hd_pc, hd_msg, hd_id, pushed>>
    /\ UNCHANGED <<gfvars, sessvars, ptvars, ltvars, exvars, pcvars, owvars, aqvars, rcvars>>

InitRegistry ==
    /\ IdleRegistry
    /\ IdleFrames
    /\ IdlePlayout
    /\ IdleLifetime
    /\ IdleCodec
    /\ IdleOwner
    /\ IdleAsync
    /\ IdleRecorder

NextRegistry ==
    \/ HdPop
    \/ HdLock
    \/ HdRandom
    \/ HdCreate
    \/ HdInsert
    \/ HangupBegin
    \/ HangupRemove

SpecRegistry == InitRegistry /\ [][NextRegistry]_vars

(***************************************************************************)
(* Properties of the registry                                              *)
(***************************************************************************)

\* the handler takes recordings_mutex for the request it holds and looks at the id
ChecksId == hd_pc = "new" /\ hd_pc' # "new"

\* the handler has accepted a request as one for a new recording
AcceptsAsNew == hd_pc = "idle" /\ hd_pc' = "new"

\* C9: a request for a new recording ("record" or "record-process-answer" with
\* the SDP it needs and no SDP update) whose id is in the registry is answered
\* with error 420, and no recorder file has been created for it: from the
\* moment the request is taken to the rejection, the files, the registry, the
\* recording objects and the fields of every session (recorder flag, recording
\* pointer, recorder handles) stay as they were.
C9_DuplicateIdRejected ==
    [][/\ AcceptsAsNew =>
            /\ files' = files /\ recordings' = recordings /\ recs' = recs
            /\ sessions' = sessions
       /\ (ChecksId /\ hd_msg.id # NoId /\ hd_msg.id > 0 /\ recordings[hd_msg.id] # 0) =>
            /\ pushed' = [handle |-> hd_msg.handle, error_code |-> 420]
            /\ hd_pc' = "idle"
            /\ files' = files /\ recordings' = recordings /\ recs' = recs
            /\ sessions' = sessions]_vars

\* session 2 asked for the id of the recording session 1 is making and got 420
C9_Witness ==
    /\ hd_pc = "idle"
    /\ pushed = [handle |-> 2, error_code |-> 420]
    /\ sessions[1].recording # 0
    /\ recordings[recs[sessions[1].recording].id] = sessions[1].recording
    /\ sessions[2] = NewSession
    /\ Len(recs) = 1

\* the ids with an entry in the registry
Registered == {k \in Ids : recordings[k] # 0}

\* C10: the id is chosen and the recording inserted in one critical section of
\* recordings_mutex: from the choice to the insertion the handler holds the
\* mutex, the chosen id is not zero and has no entry, and nobody else changes
\* the table; an insertion never replaces an entry; every entry is filed under
\* the id of its recording, so the registered recordings have distinct ids.
C10_IdChoiceAndInsertAtomic ==
    /\ [](hd_pc \in {"random", "create", "insert"} => recordings_mutex = "handler")
    /\ [](hd_pc \in {"create", "insert"} => hd_id # 0 /\ recordings[hd_id] = 0)
    /\ [](\A k1, k2 \in Registered :
            /\ recs[recordings[k1]].id = k1
            /\ k1 # k2 => /\ recordings[k1] # recordings[k2]
                          /\ recs[recordings[k1]].id # recs[recordings[k2]].id)
    /\ [][\A k \in Ids :
            (recordings'[k] # recordings[k] /\ recordings'[k] # 0) =>
                /\ recordings[k] = 0
                /\ k # 0
                /\ hd_pc = "insert" /\ recordings_mutex = "handler"
                /\ recs'[recordings'[k]].id = k]_vars
    /\ [][(recordings_mutex = "handler" /\ recordings' # recordings) => hd_pc = "insert"]_vars

\* a recording under an id the server chose is about to be inserted while
\* another recording is registered and a hangup waits for the mutex
C10_Witness ==
    /\ hd_pc = "insert"
    /\ hd_msg.id = NoId
    /\ Registered # {}
    /\ sessions_mutex # 0
(***************************************************************************)
(* The lifetime of the recordings: the reference counter, the destroyed    *)
(* and completed flags, the viewers, and the requests and callbacks that   *)
(* take and drop references ("record", "play", "list", "stop", hangup and  *)
(* destroy).                                                               *)
(***************************************************************************)

MaxObjects == 2

MaxRef == 4

\* the sessions that send "record" requests and those that send "play" requests
Recorders == {1}

Players == {2, 3}

\* refcount.h, janus_refcount_increase
RefIncrease(hp, r) == [hp EXCEPT ![r].ref = @ + 1]

\* lines 439-448, janus_auviousrecordplay_recording_free: the strings of the
\* recording and the recording itself are given back to the allocator
Freed(rec) ==
    [id |-> rec.id, offer |-> FALSE, completed |-> FALSE, destroyed |-> TRUE,
     ref |-> 0, freed |-> TRUE, arc_file |-> FALSE, vrc_file |-> FALSE]

\* refcount.h, janus_refcount_decrease: the free callback runs when the
\* counter reaches zero
RefDecrease(hp, r) ==
    IF hp[r].ref - 1 = 0
    THEN [hp EXCEPT ![r] = Freed(@)]
    ELSE [hp EXCEPT ![r].ref = @ - 1]

\* lines 434-437, janus_auviousrecordplay_recording_destroy
Destroy(hp, r) ==
    IF ~hp[r].destroyed
    THEN RefDecrease([hp EXCEPT ![r].destroyed = TRUE], r)
    ELSE hp

\* a recording created without the reference of its recorder (line 1378)
NewRecording_OneRef(id, tracks) ==
    [id |-> id, offer |-> FALSE, completed |-> FALSE, destroyed |-> FALSE,
     ref |-> 1, freed |-> FALSE,
     arc_file |-> "audio" \in tracks, vrc_file |-> "video" \in tracks]

\* lines 1370-1378 and 1413-1432: the recording object of a new recording.
\* rec->viewers is written at lines 1373, 1568 and 2491 and read nowhere: the
\* viewers of a recording are the sessions whose recording pointer names it
NewRecording(id, tracks) ==
    [id |-> id, offer |-> FALSE, completed |-> FALSE, destroyed |-> FALSE,
     ref |-> 2, freed |-> FALSE,
     arc_file |-> "audio" \in tracks, vrc_file |-> "video" \in tracks]

\* the result pushed to a session (lines 1877-1900) and the error (1904-1915)
Result(h, status, warning) ==
    [status |-> status, code |-> 0, warning |-> warning, audio |-> FALSE, video |-> FALSE]

Error(h, code) ==
    [status |-> "error", code |-> code, warning |-> "none", audio |-> FALSE, video |-> FALSE]

\* lines 1547-1558 and 1581-1582: the answer to a playout with what became of
\* session->aframes and session->vframes
WithFrames(rp, a, v) ==
    [status |-> rp.status, code |-> rp.code, warning |-> rp.warning, audio |-> a, video |-> v]

\* lines 1246-1258: the handler takes the next message of a session that is
\* in the table; it works on one message at a time
Handles_(h) ==
    /\ play = NoPlay
    /\ users_mutex.holder = 0
    /\ users[h].present

\* lines 1344-1439 and 1877-1903, one critical section of recordings_mutex: a
\* "record" request with an offer that parses and no SDP update
Record ==
    /\ table_mutex = "free"
    /\ \E h \in Recorders, id \in {NoId} \cup Keys :
        /\ Handles_(h)
        /\ IF id # NoId /\ id > 0 /\ table[id] # 0
           THEN /\ reply' = Error(h, 420)
                /\ UNCHANGED <<heap, table, users>>
           ELSE /\ Len(heap) < MaxObjects
                /\ \E k \in Keys, tracks \in Negotiated :
                    /\ IF id # NoId THEN k = id ELSE table[k] = 0
                    /\ heap' = Append(heap, NewRecording(k, tracks))
                    /\ table' = [table EXCEPT ![k] = Len(heap) + 1]
                    /\ users' = [users EXCEPT
                                   ![h].arc = IF "audio" \in tracks THEN TRUE ELSE @,
                                   ![h].vrc = IF "video" \in tracks THEN TRUE ELSE @,
                                   ![h].recorder = TRUE,
                                   ![h].recording = Len(heap) + 1,
                                   ![h].hangingup = 0]
                    /\ reply' = Result(h, "recording", "none")
    /\ UNCHANGED <<table_mutex, users_mutex, play, listed>>
    /\ UNCHANGED <<gfvars, sessvars, ptvars, rgvars, exvars, pcvars, owvars, aqvars, rcvars, player>>

\* a "record" request without an offer that is answered after the recording
\* has been created and registered
RecordRefused_AfterCreate ==
    /\ table_mutex = "free"
    /\ \E h \in Recorders, offered \in BOOLEAN, k \in Keys :
        /\ Handles_(h)
        /\ Len(heap) < MaxObjects
        /\ table[k] = 0
        /\ heap' = Append(heap, NewRecording(k, {"audio", "video"}))
        /\ table' = [table EXCEPT ![k] = Len(heap) + 1]
        /\ users' = [users EXCEPT ![h].recorder = TRUE, ![h].recording = Len(heap) + 1]
        /\ reply' = Error(h, IF offered THEN 419 ELSE 415)
    /\ UNCHANGED <<table_mutex, users_mutex, play, listed>>
    /\ UNCHANGED <<gfvars, sessvars, ptvars, rgvars, exvars, pcvars, owvars, aqvars, rcvars, player>>

\* lines 1290-1310: a "record" request whose jsep is not an offer (no SDP, no
\* type, another type) is answered with error 415, one whose offer does not
\* parse with error 419
RecordRefused ==
    /\ \E h \in Recorders, offered \in BOOLEAN :
        /\ Handles_(h)
        /\ reply' = Error(h, IF offered THEN 419 ELSE 415)
    /\ UNCHANGED <<heap, table, table_mutex, users, users_mutex, play, listed>>
    /\ UNCHANGED <<gfvars, sessvars, ptvars, rgvars, exvars, pcvars, owvars, aqvars, rcvars, player>>

\* lines 1588-1611: a "start" request. session->aframes and session->vframes
\* are not among the fields of this part: the request finds them NULL (418),
\* or comes without an SDP (415), or is answered with "playing"
Start ==
    /\ \E h \in Players, code \in {418, 415, 0} :
        /\ Handles_(h)
        /\ reply' = IF code = 0 THEN Result(h, "playing", "none") ELSE Error(h, code)
    /\ UNCHANGED <<heap, table, table_mutex, users, users_mutex, play, listed>>
    /\ UNCHANGED <<gfvars, sessvars, ptvars, rgvars, exvars, pcvars, owvars, aqvars, rcvars, player>>

\* lines 596-620, janus_auviousrecordplay_generate_offer on a registered recording
GenerateOffer ==
    /\ \E k \in Keys :
        /\ table[k] # 0
        /\ ~heap[table[k]].offer
        /\ heap' = [heap EXCEPT ![table[k]].offer = TRUE]
    /\ reply' = NoReply
    /\ UNCHANGED <<table, table_mutex, users, users_mutex, play, listed>>
    /\ UNCHANGED <<gfvars, sessvars, ptvars, rgvars, exvars, pcvars, owvars, aqvars, rcvars, player>>

\* index of a track file by janus_auviousrecordplay_get_frames: a list or NULL
Indexed == BOOLEAN

\* a lookup that takes no reference
Lookup_NoRef(hp, r) == hp

\* lines 1536: the reference the lookup takes under recordings_mutex
Lookup(hp, r) == RefIncrease(hp, r)

\* lines 1482-1488: a "play" request that carries an SDP
PlayWithSdp ==
    /\ \E h \in Players : Handles_(h)
    /\ reply' = Error(0, 414)
    /\ UNCHANGED <<heap, table, table_mutex, users, users_mutex, play, listed>>
    /\ UNCHANGED <<gfvars, sessvars, ptvars, rgvars, exvars, pcvars, owvars, aqvars, rcvars, player>>

\* lines 1495-1529 and 1571-1575, 1884-1892: a "play" request with an SDP
\* update or "restart", answered from the recording of the session
PlayRestart ==
    /\ \E h \in Players :
        LET session == users[h]
        IN  /\ Handles_(h)
            /\ IF \/ session.recorder \/ session.recording = 0
                  \/ ~heap[session.recording].offer
               THEN /\ reply' = Error(h, 418)
                    /\ UNCHANGED users
               ELSE /\ reply' = Result(h, "restarting", "none")
                    /\ users' = [users EXCEPT ![h].hangingup = 0]
    /\ UNCHANGED <<heap, table, table_mutex, users_mutex, play, listed>>
    /\ UNCHANGED <<gfvars, sessvars, ptvars, rgvars, exvars, pcvars, owvars, aqvars, rcvars, player>>

\* lines 1530-1537: the lookup of a new playout, one critical section of
\* recordings_mutex; without entry the request is answered at once (1538-1545)
PlayLookup ==
    /\ table_mutex = "free"
    /\ \E h \in Players, id \in Keys :
        LET rec == table[id]
        IN  /\ Handles_(h)
            /\ IF rec = 0
               THEN /\ reply' = Error(h, 416)
                    /\ UNCHANGED <<heap, play>>
               ELSE /\ heap[rec].ref < MaxRef
                    /\ heap' = Lookup(heap, rec)
                    /\ play' = [handle |-> h, rec |-> rec]
                    /\ reply' = NoReply
    /\ UNCHANGED <<table, table_mutex, users, users_mutex, listed>>
    /\ UNCHANGED <<gfvars, sessvars, ptvars, rgvars, exvars, pcvars, owvars, aqvars, rcvars, player>>

\* a request refused as soon as one track has no list
Unplayable_EitherBroken(a, v) == ~a \/ ~v

\* line 1560: session->aframes == NULL && session->vframes == NULL
Unplayable(a, v) == ~a /\ ~v

\* the warning of a playout (lines 1549-1558)
Warning(rec, a, v) ==
    IF rec.vrc_file /\ ~v THEN "Broken video file, playing audio only"
    ELSE IF rec.arc_file /\ ~a THEN "Broken audio file, playing video only"
    ELSE "none"

\* a lookup that accepts a recording without offer
NotFound_DestroyedOnly(rec) == rec.destroyed

\* line 1538: rec->offer == NULL || g_atomic_int_get(&rec->destroyed)
NotFound(rec) == ~rec.offer \/ rec.destroyed

\* lines 1538-1587 and 1877-1903: the recording found is refused (416), or its
\* track files are indexed and the session becomes a viewer. A recording has
\* both track files (Negotiated), so session->aframes and session->vframes
\* are the two lists just built (lines 1547-1558) whatever they held before
PlayReply ==
    /\ play # NoPlay
    /\ LET h == play.handle
           r == play.rec
           rec == heap[r]
       IN  IF NotFound(rec)
           THEN /\ heap' = RefDecrease(heap, r)
                /\ reply' = Error(h, 416)
                /\ UNCHANGED users
           ELSE /\ rec.arc_file /\ rec.vrc_file
                /\ \E a \in Indexed, v \in Indexed :
                    IF Unplayable(a, v)
                    THEN /\ reply' = WithFrames(Error(h, 417), a, v)
                         /\ UNCHANGED <<heap, users>>
                    ELSE /\ users' = [users EXCEPT ![h].recording = r,
                                                   ![h].recorder = FALSE,
                                                   ![h].hangingup = 0]
                         /\ reply' = WithFrames(Result(h, "preparing", Warning(rec, a, v)), a, v)
                         /\ UNCHANGED heap
    /\ play' = NoPlay
    /\ UNCHANGED <<table, table_mutex, users_mutex, listed>>
    /\ UNCHANGED <<gfvars, sessvars, ptvars, rgvars, exvars, pcvars, owvars, aqvars, rcvars>>

\* the answer to a play request where the frame lists are not followed
\* beyond the answer that reports them
PlayAnswer ==
    /\ PlayReply
    /\ UNCHANGED player

\* lines 1547-1558: the answer to a play request with session->aframes and
\* session->vframes, which are assigned once the recording was found
PlayIndexed ==
    /\ PlayReply
    /\ player' = IF reply'.code = 416 THEN player
                  ELSE [player EXCEPT ![play.handle].aframes = reply'.audio,
                                      ![play.handle].vframes = reply'.video]

\* lines 1588-1611: a "start" request finds session->aframes and
\* session->vframes NULL (418), or comes without an SDP (415), or is answered
\* with "playing"
StartIndexed ==
    /\ \E h \in Players, msg_sdp \in BOOLEAN :
        /\ Handles_(h)
        /\ reply' = IF ~player[h].aframes /\ ~player[h].vframes THEN Error(h, 418)
                     ELSE IF ~msg_sdp THEN Error(h, 415)
                     ELSE Result(h, "playing", "none")
    /\ UNCHANGED <<heap, table, table_mutex, users, users_mutex, play, listed>>
    /\ UNCHANGED <<gfvars, sessvars, ptvars, rgvars, exvars, pcvars, owvars, aqvars, rcvars, player>>

\* a listing that does not look at the completed flag
Listable_All(rec) == TRUE

\* line 931: an ongoing recording is skipped
Listable(rec) == rec.completed

\* lines 921-952: a "list" request, one critical section of recordings_mutex:
\* the iteration over the table (a reference is taken and dropped around each
\* entry listed) and the response
List ==
    /\ listed' = {k \in Keys : table[k] # 0 /\ Listable(heap[table[k]])}
    /\ reply' = Result(0, "list", "none")
    /\ UNCHANGED <<heap, table, table_mutex, users, users_mutex, play>>
    /\ UNCHANGED <<gfvars, sessvars, ptvars, rgvars, exvars, pcvars, owvars, aqvars, rcvars, player>>

\* removal that looks for the recording itself
Unlink_ByPointer(tb, rec, r) == [k \in Keys |-> IF tb[k] = r THEN 0 ELSE tb[k]]

\* line 1178: g_hash_table_remove(recordings, &rec->id), by key
Unlink(tb, rec, r) == [tb EXCEPT ![rec.id] = 0]

\* the recordings g_hash_table_remove hands to the value destructor (line 707)
Unlinked(tb, tb2) == {tb[k] : k \in {j \in Keys : tb[j] # 0 /\ tb2[j] = 0}}

\* lines 434-437 applied by the table to each entry it drops
RECURSIVE DestroyAll(_, _)
DestroyAll(hp, rs) ==
    IF rs = {} THEN hp
    ELSE LET r == CHOOSE x \in rs : TRUE
         IN  DestroyAll(Destroy(hp, r), rs \ {r})

\* lines 1196-1223: the first hangup of a session closes its recorders. The
\* counter is only ever compared with zero: it is kept at 1 once it is not zero
Closed(us, h) ==
    [us EXCEPT ![h].hangingup = 1,
               ![h].arc = IF us[h].hangingup = 0 THEN FALSE ELSE @,
               ![h].vrc = IF us[h].hangingup = 0 THEN FALSE ELSE @]

\* lines 1176-1182 and 1225-1226: recordings_remove(r), then the reference to
\* the recording named target is dropped
Dropped(hp, tb, r, target) ==
    RefDecrease(DestroyAll(hp, Unlinked(tb, Unlink(tb, hp[r], r))), target)

\* lines 1612-1627 and 1877-1883: a "stop" request; the handler thread runs
\* janus_auviousrecordplay_hangup_media itself and then answers
Stop ==
    /\ table_mutex = "free"
    /\ \E h \in Users :
        LET session == users[h]
            r == session.recording
        IN  /\ Handles_(h)
            /\ IF session.hangingup = 0 /\ r # 0
               THEN /\ table' = Unlink(table, heap[r], r)
                    /\ heap' = Dropped(heap, table, r, r)
                    /\ users' = [Closed(users, h) EXCEPT ![h].recording = 0]
               ELSE /\ users' = Closed(users, h)
                    /\ UNCHANGED <<heap, table>>
    /\ reply' = Result(0, "stopped", "none")
    /\ UNCHANGED <<table_mutex, users_mutex, play, listed>>
    /\ UNCHANGED <<gfvars, sessvars, ptvars, rgvars, exvars, pcvars, owvars, aqvars, rcvars, player>>

\* line 834: destroy_session removes the session from the table
AfterHangup(us, h, destroy) ==
    IF destroy THEN [us EXCEPT ![h].present = FALSE] ELSE us

\* lines 1184-1223 with sessions_mutex held by the hangup_media callback
\* (1168-1174) or by destroy_session (819-836); the removal of the session's
\* recording comes next
HangupEnter ==
    /\ users_mutex.holder = 0
    /\ \E h \in Users, destroy \in BOOLEAN :
        LET session == users[h]
            first == session.hangingup = 0
        IN  /\ session.present
            /\ IF first /\ session.recording # 0
               THEN /\ users' = Closed(users, h)
                    /\ users_mutex' = [holder |-> h, rec |-> session.recording, destroy |-> destroy]
               ELSE /\ users' = AfterHangup(Closed(users, h), h, destroy)
                    /\ UNCHANGED users_mutex
            /\ reply' = IF first THEN Result(h, "done", "none") ELSE NoReply
    /\ UNCHANGED <<heap, table, table_mutex, play, listed>>
    /\ UNCHANGED <<gfvars, sessvars, ptvars, rgvars, exvars, pcvars, owvars, aqvars, rcvars, player>>

\* lines 1224-1228 and 1176-1182: recordings_remove, the session's reference
\* dropped, session->recording = NULL; then sessions_mutex is released.
\* session->recording is read again for the decrease while the handler thread
\* may write it (line 1566) without a common lock
HangupDrop ==
    /\ users_mutex.holder # 0
    /\ table_mutex = "free"
    /\ LET h == users_mutex.holder
           r == users_mutex.rec
       IN  /\ table' = Unlink(table, heap[r], r)
           /\ \E target \in {r, users[h].recording} :
                heap' = Dropped(heap, table, r, target)
           /\ users' = AfterHangup([users EXCEPT ![h].recording = 0], h, users_mutex.destroy)
    /\ reply' = NoReply
    /\ users_mutex' = NoHangup
    /\ UNCHANGED <<table_mutex, play, listed>>
    /\ UNCHANGED <<gfvars, sessvars, ptvars, rgvars, exvars, pcvars, owvars, aqvars, rcvars, player>>

\* lines 1025-1058, janus_auviousrecordplay_setup_media: hangingup is reset
\* and, for a session that is not a recorder, a playout thread is spawned
LtSetupMedia ==
    /\ users_mutex.holder = 0
    /\ \E h \in Users :
        /\ users[h].present
        /\ users' = [users EXCEPT ![h].hangingup = 0]
        /\ player' = IF ~users[h].recorder /\ player[h].thread = "none"
                      THEN [player EXCEPT ![h].thread = "started"]
                      ELSE player
    /\ UNCHANGED <<heap, table, table_mutex, users_mutex, play, reply, listed>>
    /\ UNCHANGED <<gfvars, sessvars, ptvars, rgvars, exvars, pcvars, owvars, aqvars, rcvars>>

\* lines 2232-2259: the tests of the playout thread before it opens the
\* files; without recording, for a recorder, or without any frame list it
\* returns at once
LtThreadEnter ==
    /\ \E h \in Users :
        /\ player[h].thread = "started"
        /\ player' = [player EXCEPT ![h].thread =
                         IF users[h].recording = 0 THEN "none"
                         ELSE IF users[h].recorder THEN "none"
                         ELSE IF ~player[h].aframes /\ ~player[h].vframes THEN "none"
                         ELSE "loop"]
    /\ UNCHANGED <<heap, table, table_mutex, users, users_mutex, play, reply, listed>>
    /\ UNCHANGED <<gfvars, sessvars, ptvars, rgvars, exvars, pcvars, owvars, aqvars, rcvars>>

InitLifetime ==
    /\ IdleLifetime
    /\ IdleCodec
    /\ IdleOwner
    /\ IdleAsync
    /\ IdleRecorder
    /\ IdleFrames
    /\ IdlePlayout
    /\ IdleRegistry

NextLifetime ==
    \/ Record
    \/ RecordRefused
    \/ Start
    \/ GenerateOffer
    \/ PlayWithSdp
    \/ PlayRestart
    \/ PlayLookup
    \/ PlayAnswer
    \/ List
    \/ Stop
    \/ HangupEnter
    \/ HangupDrop

SpecLifetime == InitLifetime /\ [][NextLifetime]_vars

\* the requests and callbacks of the plugin as it is built: no request
\* reaches janus_auviousrecordplay_generate_offer, so no step stores an offer
NextPlugin ==
    \/ Record
    \/ RecordRefused
    \/ StartIndexed
    \/ PlayWithSdp
    \/ PlayRestart
    \/ PlayLookup
    \/ PlayIndexed
    \/ List
    \/ Stop
    \/ HangupEnter
    \/ HangupDrop
    \/ LtSetupMedia
    \/ LtThreadEnter

SpecPlugin == InitLifetime /\ [][NextPlugin]_vars

(***************************************************************************)
(* Properties of the lifetime of the recordings                            *)
(***************************************************************************)

\* the recordings the registry holds
InRegistry(r) == \E k \in Keys : table[k] = r

\* the handler answers the play request it holds
AnswersPlay == play # NoPlay /\ play' = NoPlay

\* C11: a play lookup of an id without entry in the registry (never
\* registered, or removed) is answered with error 416 and hands out nothing;
\* a lookup hands out only a registered recording, with one more reference;
\* a recording removed while the handler holds it is refused with 416 too;
\* and the recording the handler holds is not freed, however the registry
\* and the sessions have changed since the lookup: it is freed, if at all,
\* by the release that follows the refusal.
C11_RemovedIsNotFound ==
    /\ [][(PlayLookup /\ \A k \in Keys : table[k] = 0) =>
            /\ reply' = Error(0, 416)
            /\ play' = NoPlay /\ heap' = heap /\ users' = users]_vars
    /\ [][(play = NoPlay /\ play' # NoPlay) =>
            /\ InRegistry(play'.rec)
            /\ heap'[play'.rec].ref = heap[play'.rec].ref + 1]_vars
    /\ [][(AnswersPlay /\ heap[play.rec].destroyed) =>
            /\ reply' = Error(0, 416)
            /\ users' = users
            /\ heap'[play.rec].freed = (heap[play.rec].ref = 1)]_vars
    /\ [][reply'.status = "preparing" =>
            play # NoPlay /\ ~heap[play.rec].destroyed /\ InRegistry(play.rec)]_vars
    /\ [](play # NoPlay => ~heap[play.rec].freed /\ heap[play.rec].ref >= 1)

\* the recording the handler looked up has been removed by the hangup of its
\* recorder, and the handler's reference is the last one
C11_Witness ==
    /\ play # NoPlay
    /\ heap[play.rec].destroyed
    /\ ~InRegistry(play.rec)
    /\ heap[play.rec].ref = 1
    /\ ~heap[play.rec].freed

\* the recording objects allocated so far
Objects == 1..Len(heap)

\* the pointers to recording r: the registry's, the sessions' and the handler's
Holders(r) ==
    Cardinality({h \in Users : users[h].recording = r})
    + (IF play.rec = r THEN 1 ELSE 0)
    + (IF users_mutex.rec = r /\ users[users_mutex.holder].recording # r THEN 1 ELSE 0)
    + (IF InRegistry(r) THEN 1 ELSE 0)

\* C12: whatever the sequence of record, play, stop, hangup and destroy, the
\* reference count of a recording is never below zero and never below the
\* number of pointers held to it (the registry's, the sessions' and the
\* handler's); storage is freed exactly when the count reaches zero, by a
\* step that drops the last reference (or the registry's and the last one),
\* and only of a recording that is out of the registry and that nobody
\* points to; the registry's reference is dropped once: a
\* recording is marked destroyed exactly when it leaves the registry, losing
\* one reference, and the mark is never taken back.
C12_CountsAndFreeing ==
    /\ [](\A r \in Objects :
            /\ heap[r].ref >= 0
            /\ heap[r].freed <=> heap[r].ref = 0
            /\ heap[r].freed => ~InRegistry(r) /\ heap[r].destroyed /\ Holders(r) = 0
            /\ ~heap[r].freed => heap[r].ref >= Holders(r)
            /\ heap[r].destroyed <=> ~InRegistry(r))
    /\ [][\A r \in Objects :
            /\ (heap'[r].freed /\ ~heap[r].freed) =>
                  /\ ~InRegistry(r)'
                  /\ \/ heap[r].ref = 1
                     \/ heap[r].ref = 2 /\ InRegistry(r)
            /\ heap[r].destroyed => heap'[r].destroyed
            /\ heap[r].freed => heap'[r] = heap[r]
            /\ (heap'[r].destroyed /\ ~heap[r].destroyed) =>
                  /\ InRegistry(r) /\ ~InRegistry(r)'
                  /\ heap'[r].freed \/ heap'[r].ref \in {heap[r].ref - 1, heap[r].ref - 2}]_vars

\* the first recording has been freed; the second one has lost its recorder
\* and the registry and is kept by the viewer that plays it
C12_Witness ==
    /\ Len(heap) = 2
    /\ heap[1].freed
    /\ heap[2].destroyed /\ heap[2].ref = 1
    /\ \E h \in Players : users[h].recording = 2

\* the session that records r still has its recorders open
Capturing(r) ==
    \E h \in Users : users[h].recorder /\ users[h].recording = r /\ (users[h].arc \/ users[h].vrc)

\* session h is a viewer of recording r
Viewing(h, r) == ~users[h].recorder /\ users[h].recording = r

C14_CompletedWhenIngestionEnds ==
    \A r \in Objects : (~heap[r].freed /\ ~Capturing(r)) => heap[r].completed

\* C15: a "list" response names only recordings that are in the registry with
\* their completed flag set, so never a recording in progress, and the
\* registry and the recordings are the same before and after the listing.
C15_ListOnlyCompleted ==
    [][reply'.status = "list" =>
        /\ \A k \in listed' : table[k] # 0 /\ heap[table[k]].completed
        /\ \A k \in Keys : (table[k] # 0 /\ ~heap[table[k]].completed) => k \notin listed'
        /\ table' = table /\ heap' = heap]_vars

\* a listing made while the recording under id 1 is in progress
C15_Witness ==
    /\ reply.status = "list"
    /\ table[1] # 0
    /\ Capturing(table[1])
    /\ ~heap[table[1]].completed
    /\ 1 \notin listed

\* the hangup or stop step that calls recordings_remove for recording r
Removes(r) ==
    \/ HangupDrop /\ users_mutex.rec = r
    \/ Stop /\ \E h \in Users : users[h].recording = r /\ users'[h].recording = 0

Refused(f, i) ==
    \/ Have(f[i]) < 8
    \/ f[i].m # "M"
    \/ f[i].t \notin {"E", "J"}
    \/ (i = 1 /\ f[i].t = "E" /\ f[i].len = 5 /\ f[i].body \notin {"v", "a"})
    \/ (i = 1 /\ f[i].t = "J" /\ f[i].len > 0 /\ f[i].json # "ok")

\* a record get_frames could not read in full or could not accept
Damaged(f, i) == Refused(f, i) \/ f[i].cut # "none"

Ending == pt_pc \in {"unview", "close", "unref"}

\* C20: once the playout thread is out of its pacing loop, the next thing it
\* does is free both frame lists and clear session->aframes and
\* session->vframes; it then takes the session out of rec->viewers, then calls
\* close_pc, once, and only after all of that gives up its references to the
\* recording and to the session, both in one go; and a thread that left the
\* loop does get to that point.
C20_CleanupThenUnref ==
    /\ [][(pt_pc = "leave" /\ pt_pc' # "leave") =>
            /\ aframes' = NullList /\ vframes' = NullList
            /\ viewer' = viewer /\ closes' = closes /\ held' = held]_vars
    /\ [](Ending => aframes = NullList /\ vframes = NullList /\ held = {"rec", "session"})
    /\ [](pt_pc \in {"close", "unref"} => ~viewer)
    /\ [](closes <= 1)
    /\ [](pt_pc = "unref" => closes = 1)
    /\ [](pt_pc \notin {"unref", "done"} => closes = 0)
    /\ [][(held = {"rec", "session"} /\ held' # held) =>
            /\ held' = {}
            /\ aframes = NullList /\ vframes = NullList
            /\ ~viewer
            /\ closes = 1]_vars
    /\ (pt_pc = "leave") ~> (pt_pc = "done" /\ held = {} /\ ~viewer /\ closes = 1
                                /\ aframes = NullList /\ vframes = NullList)

C20_Witness ==
    /\ pt_pc = "done"
    /\ Len(arelayed) > 0
    /\ Len(vrelayed) > 0
    /\ closes = 1
    /\ ~viewer
    /\ held = {}
    /\ cancelled.seen

(***************************************************************************)
(* janus_auviousrecordplay_parse_codec (lines 462-593)                     *)
(***************************************************************************)
\* a JSON value as json_object_get and json_is_string see it
Str(s) == [is |-> "string", s |-> s]

Absent == [is |-> "absent", s |-> ""]

NotString == [is |-> "number", s |-> ""]

\* what json_loads makes of the payload: NULL, or an object with "t" and "c"
Undecodable == [ok |-> FALSE, t |-> Absent, c |-> Absent]

Json(t, c) == [ok |-> TRUE, t |-> t, c |-> c]

\* a record of the container as parse_codec reads it: body is the first byte
\* of the payload, json the payload as a JSON text
Rec(m, t, len, body, json) ==
    [m |-> m, t |-> t, len |-> len, body |-> body, json |-> json, cut |-> "none"]

\* the letters strcasecmp takes as equal, on the names used below
Lower(s) ==
    IF s = "V" THEN "v"
    ELSE IF s = "A" THEN "a"
    ELSE IF s = "OPUS" THEN "opus"
    ELSE IF s = "VP8" THEN "vp8"
    ELSE s

\* the codecs the SDP utilities know, by media kind
Supported(kind) ==
    IF kind = "video" THEN {"vp8", "vp9", "h264"} ELSE {"opus", "pcmu", "pcma", "g722"}

\* janus_sdp_match_preferred_codec(type, codec): the supported name, or NULL
MatchPreferredCodec(kind, c) ==
    IF Lower(c) \in Supported(kind) THEN Lower(c) ELSE "NULL"

\* a reading of "t" that takes everything but video as audio
TrackKind_AudioByDefault(t) ==
    IF Lower(t) = "v" THEN "video" ELSE "audio"

\* lines 546-557: !strcasecmp(t, "v"), !strcasecmp(t, "a"), else unsupported
TrackKind(t) ==
    IF Lower(t) = "v" THEN "video"
    ELSE IF Lower(t) = "a" THEN "audio"
    ELSE "NULL"

\* lines 509-522: prebuffer[0] after the fread of the 5 bytes, whose result is
\* not looked at (prebuffer still starts with the 'M' of the magic when
\* nothing was read)
LegacyCodec(r) ==
    LET b == IF r.cut = "payload" THEN "M" ELSE r.body
    IN  IF b = "v" THEN "vp8"
        ELSE IF b = "a" THEN "opus"
        ELSE "NULL"

\* lines 529-575: the info header; when nothing was read json_loads is given
\* the magic, which is no JSON text
InfoCodec(r) ==
    LET info == IF r.cut = "payload" THEN Undecodable ELSE r.json
    IN  IF ~info.ok THEN "NULL"
        ELSE IF info.t.is # "string" THEN "NULL"
        ELSE IF TrackKind(info.t.s) = "NULL" THEN "NULL"
        ELSE IF info.c.is # "string" THEN "NULL"
        ELSE MatchPreferredCodec(TrackKind(info.t.s), info.c.s)

\* a loop that goes on to the next record when a record gives no codec
ParseCodec_ReadsOn(f) ==
    LET Answer(r) ==
            IF Have(r) < 8 \/ r.m # "M" THEN "NULL"
            ELSE IF r.t = "E"
            THEN IF r.len = 5 THEN LegacyCodec(r) ELSE "NULL"
            ELSE IF r.t = "J"
            THEN IF r.len > 0 THEN InfoCodec(r) ELSE "NULL"
            ELSE "NULL"
    IN  IF ~(0 < FSize(f)) THEN "NULL"
        ELSE IF Answer(f[1]) = "NULL" /\ Len(f) > 1 THEN Answer(f[2])
        ELSE Answer(f[1])

\* lines 462-593; every path through the body of the while returns, so only
\* the record at offset 0 is ever read
ParseCodec(f) ==
    IF ~(0 < FSize(f)) THEN "NULL"
    ELSE LET r == f[RecAt(f, 0)]
         IN  IF Have(r) < 8 \/ r.m # "M" THEN "NULL"
             ELSE IF r.t = "E"
             THEN IF r.len = 5 THEN LegacyCodec(r) ELSE "NULL"
             ELSE IF r.t = "J"
             THEN IF r.len > 0 THEN InfoCodec(r) ELSE "NULL"
             ELSE "NULL"

\* the call
ParseCodecCall ==
    /\ mcodec = "none"
    /\ mcodec' = ParseCodec(source)
    /\ UNCHANGED source
    /\ UNCHANGED <<gfvars, sessvars, ptvars, rgvars, ltvars, exvars, owvars, aqvars, rcvars>>

\* ---- the files parse_codec is run on
MaxFollow == 1

TypeSet == {Str("a"), Str("v"), Str("V"), Str("x"), Absent, NotString}

CodecSet == {Str("opus"), Str("OPUS"), Str("vp8"), Str("pcmu"), Str("mp3"), Absent, NotString}

InfoSet == {Undecodable} \cup {Json(t, c) : t \in TypeSet, c \in CodecSet}

\* first records: info headers, an info header of length 0, legacy headers,
\* a media record, records with another magic, and records the file ends in
FirstSet ==
    {Rec("M", "J", 60, "{", j) : j \in InfoSet}
    \cup {Rec("M", "J", 0, "M", Json(Str("v"), Str("vp8")))}
    \cup {Rec("M", "E", 5, b, Undecodable) : b \in {"v", "a", "V", "x"}}
    \cup {Rec("M", "E", 100, "v", Undecodable)}
    \cup {Rec("X", "E", 5, "v", Undecodable), Rec("M", "Q", 5, "v", Undecodable)}
    \cup {[Rec("M", "E", 5, "v", Undecodable) EXCEPT !.cut = c] : c \in {"magic", "payload"}}
    \cup {[Rec("M", "J", 60, "{", Json(Str("v"), Str("vp8"))) EXCEPT !.cut = c] :
                c \in {"magic", "payload"}}

FollowSet == {Rec("M", "E", 5, "a", Undecodable),
              Rec("M", "J", 60, "{", Json(Str("a"), Str("opus")))}

Sources ==
    {<<>>} \cup {<<r>> \o q : r \in {x \in FirstSet : x.cut = "none"},
                              q \in SeqsUpTo(FollowSet, MaxFollow)}
           \cup {<<r>> : r \in {x \in FirstSet : x.cut # "none"}}

InitCodec ==
    /\ source \in Sources
    /\ mcodec = "none"
    /\ IdleFrames
    /\ IdlePlayout
    /\ IdleRegistry
    /\ IdleLifetime
    /\ IdleOwner
    /\ IdleAsync
    /\ IdleRecorder

NextCodec == ParseCodecCall

SpecCodec == InitCodec /\ [][NextCodec]_vars

\* the first record is whole as far as parse_codec reads it and carries a
\* magic starting with 'M' and t
First(t) ==
    /\ Len(source) > 0
    /\ source[1].cut = "none"
    /\ source[1].m = "M"
    /\ source[1].t = t

\* the first record is a legacy header for name
LegacyFor(name) ==
    /\ First("E")
    /\ source[1].len = 5
    /\ \/ source[1].body = "v" /\ name = "vp8"
       \/ source[1].body = "a" /\ name = "opus"

\* the first record is an info header whose type is known and whose codec
\* resolves to name for that kind
InfoFor(name) ==
    /\ First("J")
    /\ source[1].len > 0
    /\ source[1].json.ok
    /\ source[1].json.t.is = "string"
    /\ source[1].json.c.is = "string"
    /\ \E kind \in {"audio", "video"} :
        /\ Lower(source[1].json.t.s) = (IF kind = "video" THEN "v" ELSE "a")
        /\ name \in Supported(kind)
        /\ name = Lower(source[1].json.c.s)

Names == Supported("audio") \cup Supported("video")

\* C19: parse_codec returns a codec name in two cases only, a first record
\* that is a legacy 'E' record of 5 bytes starting with 'v' (vp8) or 'a'
\* (opus), or a first 'J' record whose metadata decodes, names a known track
\* type and a codec supported for that kind, whose canonical name it returns;
\* it returns NULL when the magic is invalid, the type is not recognised, the
\* codec is missing or not supported for the kind, or the metadata does not
\* decode.
C19_CodecOnlyFromFirstHeader ==
    mcodec # "none" =>
        /\ mcodec \in Names \cup {"NULL"}
        /\ \A name \in Names : mcodec = name <=> (LegacyFor(name) \/ InfoFor(name))
        /\ (Len(source) > 0 /\ (source[1].m # "M" \/ source[1].t \notin {"E", "J"}))
                => mcodec = "NULL"
        /\ (First("J") /\ ~source[1].json.ok) => mcodec = "NULL"
        /\ (First("J") /\ source[1].json.t \notin {Str("a"), Str("v"), Str("A"), Str("V")})
                => mcodec = "NULL"
        /\ (First("J") /\ source[1].json.c.is # "string") => mcodec = "NULL"
        /\ (First("J") /\ source[1].json.t \in {Str("a"), Str("A")}
                /\ Lower(source[1].json.c.s) \notin Supported("audio")) => mcodec = "NULL"
        /\ (First("J") /\ source[1].json.t \in {Str("v"), Str("V")}
                /\ Lower(source[1].json.c.s) \notin Supported("video")) => mcodec = "NULL"

C19_Witness ==
    /\ mcodec = "opus"
    /\ First("J")
    /\ source[1].json.c = Str("OPUS")
    /\ Len(source) > 1

\* C34: the answer of parse_codec is decided by the first record of the file:
\* every file that starts with the same record gets the same answer, whatever
\* records follow it.
C34_FirstRecordDecides ==
    mcodec # "none" =>
        \A g \in Sources :
            (Len(g) > 0 /\ Len(source) > 0 /\ g[1] = source[1]) => ParseCodec(g) = mcodec

\* the first record gives no codec and is followed by a header that, read on
\* its own, names one
C34_Witness ==
    /\ mcodec = "NULL"
    /\ Len(source) > 1
    /\ ParseCodec(Tail(source)) = "opus"

(***************************************************************************)
(* Pass 1 of get_frames: the header record and the first timestamp         *)
(***************************************************************************)
\* a container with nothing cut off and nothing get_frames refuses
Whole(f) == ValidContainer(f) /\ \A i \in 1..Len(f) : f[i].cut = "none"

\* record i is the header of the container
IsHeader(f, i) ==
    i = 1 /\ f[i] \in {LegacyHeader("v"), LegacyHeader("a"), InfoHeader("ok")}

\* C25: the pass 1 step that reads the header record of a container, legacy
\* or current, leaves first_ts, last_ts and reset as they were, so that only
\* the media records pass 2 makes packets of contribute a timestamp.
C25_HeaderGivesNoTimestamp ==
    [][(/\ gf_pc = "pass1" /\ offset = 0 /\ offset' # 0
        /\ Whole(file) /\ Len(file) > 0 /\ IsHeader(file, 1)) =>
            /\ first_ts' = first_ts
            /\ last_ts' = last_ts
            /\ reset' = reset]_vars

\* the first media record in file order
FirstMedia(f) == CHOOSE i \in MediaIdx(f) : \A j \in MediaIdx(f) : i <= j

\* a timestamp with the headroom of 1,000,000 taken off
Headroom(ts) == IF Lt(N(1000 * 1000), ts) THEN Sub(ts, N(1000 * 1000)) ELSE ts

\* C26: after pass 1, first_ts is the timestamp of the first media record in
\* file order, less 1,000,000 when it is above 1,000,000, whatever timestamps
\* the later records carry (0 included).
C26_FirstTsIsFirstMedia ==
    (gf_pc = "pass2" /\ Whole(file) /\ MediaIdx(file) # {}) =>
        first_ts = Headroom(file[FirstMedia(file)].ts)

\* two media records that follow each other in the file, the second with a
\* timestamp more than 2*10^9 below the first
BackwardJump(f) ==
    \E i, j \in MediaIdx(f) :
        /\ i < j
        /\ \A k \in MediaIdx(f) : ~(i < k /\ k < j)
        /\ Lt(f[j].ts, f[i].ts)
        /\ Lt(N(2 * 1000 * 1000 * 1000), Sub(f[i].ts, f[j].ts))

\* C27: the packets of a returned list carry the raw timestamp of their
\* record when no media record is more than 2*10^9 below its predecessor;
\* when one is, whatever value it jumps to, a record above first_ts keeps its
\* raw timestamp and a record at or below first_ts gets raw + 2^32.
C27_ExtendedAfterAnyJump ==
    (Returned /\ Whole(file)) =>
        \A i \in MediaIdx(file) :
            pkts[PktOfRec(i)].ts =
                IF ~BackwardJump(file) THEN file[i].ts
                ELSE IF Lt(first_ts, file[i].ts) THEN file[i].ts
                ELSE Add(Max32, file[i].ts)

(***************************************************************************)
(* The "stop" request                                                      *)
(***************************************************************************)
\* C21: once a "stop" request of a session has been handled, whether the
\* session was recording or replaying, gateway->close_pc is called for its
\* handle.
C21_StopClosesPc == (stopped \in {"recording", "replaying"}) ~> (closes > 0)

(***************************************************************************)
(* The playout thread and the recording it plays                           *)
(***************************************************************************)
\* C29: whatever hangup_media, stop and the destruction of the session do
\* meanwhile, the playout thread holds its own reference to the recording
\* from its first checks to its last statement and never reads through a
\* recording pointer that has been cleared.
C29_ThreadNeverReadsClearedRecording ==
    /\ pt_pc \in {"timer", "top", "sleep", "audio", "video", "leave", "unview", "close", "unref"}
            => "rec" \in held
    /\ pt_pc # "crashed"

(***************************************************************************)
(* One viewer session: the play requests of the handler thread, the        *)
(* callbacks of the core and the playout threads setup_media spawns.       *)
(* A frame list is one object of the heap "frames"; session->aframes and   *)
(* session->vframes and the threads' audio and video are pointers to it.   *)
(***************************************************************************)
MaxLists == 2

MaxThreads == 2
\* the hangups of a session that find session->hangingup already raised
MaxRepeat == 2

\* the handle of the session
Viewer == 1

NewThread == [pc |-> "start", rec |-> 0, audio |-> 0, video |-> 0]

\* g_free of every packet of list p
FreeList(fr, p) ==
    IF p = 0 THEN fr
    ELSE [fr EXCEPT ![p] = IF @ = "live" THEN "freed" ELSE "freed twice"]

\* g_list_remove(list, data): the first entry for data is taken out
RECURSIVE ListRemove(_, _)
ListRemove(l, x) ==
    IF l = <<>> THEN <<>>
    ELSE IF Head(l) = x THEN Tail(l)
    ELSE <<Head(l)>> \o ListRemove(Tail(l), x)

\* lines 1482-1570: a play request for recording r whose files index as a, v;
\* the request ends at line 1563 when neither does; the append of line 1568
\* reads rec->viewers here and writes it in the next step
OwPlay ==
    /\ ~sess.destroyed
    /\ appending = NoAppend
    /\ \E r \in Recs \ gone : \E a, v \in BOOLEAN :
        LET na == IF a THEN Len(frames) + 1 ELSE 0
            nv == IF v THEN Len(frames) + (IF a THEN 2 ELSE 1) ELSE 0
            fr == frames \o (IF a THEN <<"live">> ELSE <<>>) \o (IF v THEN <<"live">> ELSE <<>>)
        IN  /\ Len(fr) <= MaxLists
            /\ frames' = fr
            /\ IF ~a /\ ~v
               THEN /\ sess' = [sess EXCEPT !.aframes = 0, !.vframes = 0]
                    /\ UNCHANGED appending
               ELSE /\ sess' = [sess EXCEPT !.aframes = na, !.vframes = nv,
                                            !.recording = r, !.recorder = FALSE]
                    /\ appending' = [rec |-> r, read |-> viewers[r]]
    /\ UNCHANGED <<peer, threads, viewers, rec_mutex, gone>>
    /\ UNCHANGED <<dones, releases>>
    /\ UNCHANGED <<gfvars, sessvars, ptvars, rgvars, ltvars, exvars, pcvars, aqvars, rcvars>>

\* line 1568: rec->viewers = g_list_append(rec->viewers, session), the write,
\* and lines 1887-1894: hangingup is reset and the offer is pushed
OwAppend ==
    /\ appending # NoAppend
    /\ viewers' = [viewers EXCEPT ![appending.rec] = Append(appending.read, Viewer)]
    /\ appending' = NoAppend
    /\ sess' = [sess EXCEPT !.hangingup = 0]
    /\ peer' = IF peer = "none" THEN "offered" ELSE peer
    /\ UNCHANGED <<frames, threads, rec_mutex, gone>>
    /\ dones' = 0
    /\ releases' = 0
    /\ UNCHANGED <<gfvars, sessvars, ptvars, rgvars, ltvars, exvars, pcvars, aqvars, rcvars>>

\* lines 1025-1059: the core reports the PeerConnection of an offer as up
OwSetupMedia ==
    /\ peer = "offered"
    /\ ~sess.destroyed
    /\ Len(threads) < MaxThreads
    /\ peer' = "up"
    /\ sess' = [sess EXCEPT !.hangingup = 0, !.active = TRUE]
    /\ threads' = IF ~sess.recorder THEN Append(threads, NewThread) ELSE threads
    /\ UNCHANGED <<frames, viewers, rec_mutex, gone, appending>>
    /\ dones' = 0
    /\ releases' = 0
    /\ UNCHANGED <<gfvars, sessvars, ptvars, rgvars, ltvars, exvars, pcvars, aqvars, rcvars>>

\* hangup_media_internal without the test of session->hangingup (line 1196)
OwHangupInternal_NoFlagTest(d) ==
    /\ sess' = IF sess.destroyed THEN [sess EXCEPT !.active = FALSE]
               ELSE [sess EXCEPT !.active = FALSE, !.destroyed = d,
                                 !.hangingup = sess.hangingup + 1, !.recording = 0]
    /\ dones' = IF ~sess.destroyed THEN dones + 1 ELSE dones
    /\ releases' = IF ~sess.destroyed /\ sess.recording # 0
                   THEN releases + 1 ELSE releases
    /\ gone' = IF ~sess.destroyed /\ sess.recording # 0
               THEN gone \cup {sess.recording} ELSE gone
    /\ UNCHANGED <<frames, threads, viewers, rec_mutex, appending>>
    /\ UNCHANGED <<gfvars, sessvars, ptvars, rgvars, ltvars, exvars, pcvars, aqvars, rcvars>>

\* lines 1184-1229, hangup_media_internal, with d the value of
\* session->destroyed it leaves behind
OwHangupInternal(d) ==
    /\ sess' = IF sess.destroyed THEN [sess EXCEPT !.active = FALSE]
               ELSE IF sess.hangingup # 0
               THEN [sess EXCEPT !.active = FALSE, !.destroyed = d,
                                 !.hangingup = sess.hangingup + 1]
               ELSE [sess EXCEPT !.active = FALSE, !.destroyed = d, !.hangingup = 1,
                                 !.recording = 0]
    /\ dones' = IF ~sess.destroyed /\ sess.hangingup = 0 THEN dones + 1 ELSE dones
    /\ releases' = IF ~sess.destroyed /\ sess.hangingup = 0 /\ sess.recording # 0
                   THEN releases + 1 ELSE releases
    /\ gone' = IF ~sess.destroyed /\ sess.hangingup = 0 /\ sess.recording # 0
               THEN gone \cup {sess.recording} ELSE gone
    /\ UNCHANGED <<frames, threads, viewers, rec_mutex, appending>>
    /\ UNCHANGED <<gfvars, sessvars, ptvars, rgvars, ltvars, exvars, pcvars, aqvars, rcvars>>

\* lines 1169-1174: the core reports the PeerConnection as gone
OwHangupMedia ==
    /\ peer # "none"
    /\ sess.hangingup < MaxRepeat
    /\ peer' = "none"
    /\ OwHangupInternal(sess.destroyed)

\* lines 1612-1627: a stop request in the handler thread
OwStop ==
    /\ ~sess.destroyed
    /\ appending = NoAppend
    /\ sess.hangingup < MaxRepeat
    /\ peer' = peer
    /\ OwHangupInternal(FALSE)

\* lines 819-836: destroy_session
OwDestroySession ==
    /\ ~sess.destroyed
    /\ peer' = "none"
    /\ OwHangupInternal(TRUE)

\* lines 2238-2295: the checks of a new thread; fopen may fail
OwStart ==
    \E t \in 1..Len(threads) :
    /\ threads[t].pc = "start"
    /\ IF sess.recording = 0 \/ sess.recorder \/ (sess.aframes = 0 /\ sess.vframes = 0)
       THEN threads' = [threads EXCEPT ![t].pc = "done"]
       ELSE \E opened \in BOOLEAN :
                threads' = [threads EXCEPT ![t].pc = IF opened THEN "timer" ELSE "done",
                                           ![t].rec = IF opened THEN sess.recording ELSE 0]
    /\ UNCHANGED <<sess, peer, frames, viewers, rec_mutex, gone, appending>>
    /\ UNCHANGED <<dones, releases>>
    /\ UNCHANGED <<gfvars, sessvars, ptvars, rgvars, ltvars, exvars, pcvars, aqvars, rcvars>>

\* lines 2304-2311: audio = session->aframes, video = session->vframes, and
\* the payload types read through session->recording
OwTimer ==
    \E t \in 1..Len(threads) :
    /\ threads[t].pc = "timer"
    /\ threads' = IF sess.recording = 0
                  THEN [threads EXCEPT ![t].pc = "crashed"]
                  ELSE [threads EXCEPT ![t].pc = "loop", ![t].audio = sess.aframes,
                                       ![t].video = sess.vframes]
    /\ UNCHANGED <<sess, peer, frames, viewers, rec_mutex, gone, appending>>
    /\ UNCHANGED <<dones, releases>>
    /\ UNCHANGED <<gfvars, sessvars, ptvars, rgvars, ltvars, exvars, pcvars, aqvars, rcvars>>

\* lines 2318-2461: the thread leaves its loop, because a flag was cleared or
\* because it has played both lists to their ends (audio and video are then
\* NULL, line 2319)
OwLoop ==
    \E t \in 1..Len(threads) :
    /\ threads[t].pc = "loop"
    /\ threads' = [threads EXCEPT ![t].pc = "free", ![t].audio = 0, ![t].video = 0]
    /\ UNCHANGED <<sess, peer, frames, viewers, rec_mutex, gone, appending>>
    /\ UNCHANGED <<dones, releases>>
    /\ UNCHANGED <<gfvars, sessvars, ptvars, rgvars, ltvars, exvars, pcvars, aqvars, rcvars>>

\* lines 2467 and 2474: audio = session->aframes; video = session->vframes
OwReadLists ==
    \E t \in 1..Len(threads) :
    /\ threads[t].pc = "free"
    /\ threads' = [threads EXCEPT ![t].pc = "freeing", ![t].audio = sess.aframes,
                                  ![t].video = sess.vframes]
    /\ UNCHANGED <<sess, peer, frames, viewers, rec_mutex, gone, appending>>
    /\ UNCHANGED <<dones, releases>>
    /\ UNCHANGED <<gfvars, sessvars, ptvars, rgvars, ltvars, exvars, pcvars, aqvars, rcvars>>

\* lines 2468-2480: every packet is freed and the two pointers are cleared
OwFreeLists ==
    \E t \in 1..Len(threads) :
    /\ threads[t].pc = "freeing"
    /\ frames' = FreeList(FreeList(frames, threads[t].audio), threads[t].video)
    /\ sess' = [sess EXCEPT !.aframes = 0, !.vframes = 0]
    /\ threads' = [threads EXCEPT ![t].pc = "lock", ![t].audio = 0, ![t].video = 0]
    /\ UNCHANGED <<peer, viewers, rec_mutex, gone, appending>>
    /\ UNCHANGED <<dones, releases>>
    /\ UNCHANGED <<gfvars, sessvars, ptvars, rgvars, ltvars, exvars, pcvars, aqvars, rcvars>>

\* line 2490: janus_mutex_lock(&rec->mutex)
OwLock ==
    \E t \in 1..Len(threads) :
    /\ threads[t].pc = "lock"
    /\ rec_mutex[threads[t].rec] = 0
    /\ rec_mutex' = [rec_mutex EXCEPT ![threads[t].rec] = t]
    /\ threads' = [threads EXCEPT ![t].pc = "remove"]
    /\ UNCHANGED <<sess, peer, frames, viewers, gone, appending>>
    /\ UNCHANGED <<dones, releases>>
    /\ UNCHANGED <<gfvars, sessvars, ptvars, rgvars, ltvars, exvars, pcvars, aqvars, rcvars>>

\* lines 2491-2502: rec->viewers = g_list_remove(rec->viewers, session), the
\* unlock, close_pc and the end of the thread
OwRemove ==
    \E t \in 1..Len(threads) :
    /\ threads[t].pc = "remove"
    /\ viewers' = [viewers EXCEPT ![threads[t].rec] = ListRemove(@, Viewer)]
    /\ rec_mutex' = [rec_mutex EXCEPT ![threads[t].rec] = 0]
    /\ threads' = [threads EXCEPT ![t].pc = "done", ![t].rec = 0]
    /\ UNCHANGED <<sess, peer, frames, gone, appending>>
    /\ UNCHANGED <<dones, releases>>
    /\ UNCHANGED <<gfvars, sessvars, ptvars, rgvars, ltvars, exvars, pcvars, aqvars, rcvars>>

InitOwner ==
    /\ IdleOwner
    /\ IdleAsync
    /\ IdleRecorder
    /\ IdleFrames
    /\ IdlePlayout
    /\ IdleRegistry
    /\ IdleLifetime
    /\ IdleCodec

NextOwner ==
    \/ OwPlay
    \/ OwAppend
    \/ OwSetupMedia
    \/ OwHangupMedia
    \/ OwStop
    \/ OwDestroySession
    \/ OwStart
    \/ OwTimer
    \/ OwLoop
    \/ OwReadLists
    \/ OwFreeLists
    \/ OwLock
    \/ OwRemove

SpecOwner == InitOwner /\ [][NextOwner]_vars

\* the threads that are in their loop or freeing the lists they read
Playout == {t \in 1..Len(threads) : threads[t].pc \in {"loop", "freeing"}}

\* the lists thread t has a pointer into
ListsOf(t) == {threads[t].audio, threads[t].video} \ {0}

\* no two playout threads have a pointer into the same list
NoSharedList ==
    \A t, u \in Playout : t # u => ListsOf(t) \cap ListsOf(u) = {}

\* the lists a thread plays are live and are still the lists of the session
NotReplacedInUse ==
    \A t \in Playout :
        /\ \A l \in ListsOf(t) : frames[l] = "live"
        /\ threads[t].audio # 0 => sess.aframes = threads[t].audio
        /\ threads[t].video # 0 => sess.vframes = threads[t].video

\* no list is freed a second time
FreedOnce == \A l \in 1..Len(frames) : frames[l] # "freed twice"

\* a list nothing points to any more has been freed
NoLostList ==
    \A l \in 1..Len(frames) :
        (/\ sess.aframes # l /\ sess.vframes # l
         /\ \A t \in 1..Len(threads) : l \notin ListsOf(t)) => frames[l] # "live"

\* C30: the frame lists of a session belong to one playout thread: no two
\* threads traverse or free the same list, nobody replaces or frees
\* session->aframes or session->vframes while a thread uses them, and every
\* list is released exactly once.
C30_ListsOwnedByOnePlayout ==
    /\ NoSharedList
    /\ NotReplacedInUse
    /\ FreedOnce
    /\ NoLostList

\* the threads inside the critical section of rec->mutex
Locked(r) == {t \in 1..Len(threads) : threads[t].pc = "remove" /\ threads[t].rec = r}

\* C28: rec->viewers is only ever changed by a thread that holds rec->mutex,
\* so the append of a play request and the removal at the end of a playout
\* never work on the same list at the same time.
C28_ViewersChangedUnderMutex ==
    /\ [][\A r \in Recs : viewers'[r] # viewers[r] =>
            (rec_mutex[r] # 0 /\ ~OwAppend)]_vars
    /\ [](appending.rec # 0 => Locked(appending.rec) = {})

\* the fields of a session a request for a recording or a playout sets
Role(session) == <<session.recorder, session.recording, session.arc, session.vrc>>

\* C23: the step in which the handler answers a request with an error event
\* leaves the registry, the recordings and, for every session, the recorder
\* flag, the recording pointer and the two recorder handles as they were; and
\* a "record" request that does not come with an SDP offer is answered with
\* such an error.
C23_ErrorLeavesNoTrace ==
    /\ [][reply'.status = "error" =>
            /\ table' = table
            /\ Len(heap') = Len(heap)
            /\ \A h \in Users : Role(users'[h]) = Role(users[h])]_vars
    /\ [][RecordRefused => reply'.status = "error" /\ reply'.code \in {415, 419}]_vars

\* a "record" request without an offer has been refused while another session
\* records and its recording is registered
C23_Witness ==
    /\ reply.status = "error"
    /\ reply.code = 415
    /\ \E k \in Keys : table[k] # 0
    /\ \E h \in Users : users[h].recorder /\ users[h].recording # 0 /\ users[h].arc

\* C24: between two resets of session->hangingup (setup_media, a new JSEP
\* event) the hangups of a session, whoever calls them and however often,
\* push at most one 'done' event and release the session's recording at most
\* once.
C24_DoneOncePerHangup == dones <= 1 /\ releases <= 1

\* the session has been hung up again after its 'done' event and the release
C24_Witness == sess.hangingup >= 2 /\ dones = 1 /\ releases = 1

(***************************************************************************)
(* The queue of asynchronous requests: handle_message, called by the core  *)
(* for any handle, and the handler thread.  A transaction is the number of *)
(* the call of handle_message that carried it.                             *)
(***************************************************************************)
MaxCalls == 3

\* the requests answered inside handle_message (lines 916-952)
Synchronous == {"list", "update"}

\* the requests handed to the handler thread (lines 978-981)
Asynchronous == {"record", "play", "start", "stop"}

\* lines 867-1023, janus_auviousrecordplay_handle_message: without a session
\* for the handle it goes to plugin_response with sessions_mutex still locked
\* (lines 877-883); a caller that finds the mutex locked for ever never returns
HandleMessage ==
    /\ Len(returned) < MaxCalls
    /\ ~leaked
    /\ \E h \in Callers, request \in Synchronous \cup Asynchronous :
        LET transaction == Len(returned) + 1
            Returns(result) == Append(returned, [handle |-> h, request |-> request,
                                                 result |-> result])
        IN  IF h \notin known
            THEN /\ leaked' = TRUE
                 /\ returned' = Returns("error")
                 /\ UNCHANGED messages
            ELSE IF request \in Synchronous
            THEN /\ returned' = Returns("response")
                 /\ UNCHANGED <<messages, leaked>>
            ELSE /\ messages' = Append(messages, [handle |-> h, transaction |-> transaction,
                                                  request |-> request])
                 /\ returned' = Returns("wait")
                 /\ UNCHANGED leaked
    /\ UNCHANGED <<known, hq_pc, current, events>>
    /\ UNCHANGED <<gfvars, sessvars, ptvars, rgvars, ltvars, exvars, pcvars, owvars, rcvars>>

\* lines 819-837, destroy_session: the session leaves the table
ForgetSession ==
    /\ ~leaked
    /\ \E h \in known : known' = known \ {h}
    /\ UNCHANGED <<messages, leaked, hq_pc, current, events, returned>>
    /\ UNCHANGED <<gfvars, sessvars, ptvars, rgvars, ltvars, exvars, pcvars, owvars, rcvars>>

\* line 1239: msg = g_async_queue_pop(messages)
HqPop ==
    /\ hq_pc = "pop"
    /\ messages # <<>>
    /\ current' = Head(messages)
    /\ messages' = Tail(messages)
    /\ hq_pc' = "lock"
    /\ UNCHANGED <<known, leaked, events, returned>>
    /\ UNCHANGED <<gfvars, sessvars, ptvars, rgvars, ltvars, exvars, pcvars, owvars, rcvars>>

\* lines 1246-1259: the lookup under sessions_mutex; the message of a session
\* that is gone is freed
HqLock ==
    /\ hq_pc = "lock"
    /\ ~leaked
    /\ IF current.handle \in known
       THEN hq_pc' = "handle" /\ UNCHANGED current
       ELSE hq_pc' = "pop" /\ current' = NoMessage
    /\ UNCHANGED <<messages, known, leaked, events, returned>>
    /\ UNCHANGED <<gfvars, sessvars, ptvars, rgvars, ltvars, exvars, pcvars, owvars, rcvars>>

\* lines 1260-1915: the request is handled and one event is pushed with
\* msg->transaction, a result (1877-1900) or an error (1904-1915); "stop" has
\* no error and calls hangup_media, which takes sessions_mutex, first (1627)
HqAnswer ==
    /\ hq_pc = "handle"
    /\ current.request = "stop" => ~leaked
    /\ \E error \in BOOLEAN :
        /\ current.request = "stop" => ~error
        /\ events' = Append(events, [handle |-> current.handle,
                                     transaction |-> current.transaction,
                                     error |-> error])
    /\ hq_pc' = "pop"
    /\ current' = NoMessage
    /\ UNCHANGED <<messages, known, leaked, returned>>
    /\ UNCHANGED <<gfvars, sessvars, ptvars, rgvars, ltvars, exvars, pcvars, owvars, rcvars>>

InitAsync ==
    /\ IdleAsync
    /\ IdleRecorder
    /\ IdleFrames
    /\ IdlePlayout
    /\ IdleRegistry
    /\ IdleLifetime
    /\ IdleCodec
    /\ IdleOwner

NextAsync ==
    \/ HandleMessage
    \/ ForgetSession
    \/ HqPop
    \/ HqLock
    \/ HqAnswer

SpecAsync == InitAsync /\ [][NextAsync]_vars

\* the handler thread is scheduled whenever it can take a step
HqThread == HqPop \/ HqLock \/ HqAnswer

SpecAsyncLive == SpecAsync /\ WF_vars(HqThread)

\* the events pushed for transaction t
EventsOf(t) == {i \in 1..Len(events) : events[i].transaction = t}

\* the call of transaction t has been made and its request queued
Queued(t) == t <= Len(returned) /\ returned[t].result = "wait"

\* the request of transaction t is queued and its session is in the table
Pending(t) == Queued(t) /\ returned[t].handle \in known

\* the one event of transaction t has been pushed
Answered(t) == Cardinality(EventsOf(t)) = 1

\* C22: record, play, start and stop are queued by handle_message, which
\* returns a wait result and pushes no event; list and update are answered
\* inside handle_message and never reach the handler; the handler pushes its
\* events in the order in which the requests were queued, at most one for a
\* transaction; and the request of a session that is not destroyed is
\* eventually answered with its one event.
C22_AsyncAnsweredOnceInOrder ==
    /\ [][returned' # returned =>
            /\ events' = events
            /\ LET call == returned'[Len(returned')]
               IN  /\ call.request \in Synchronous => call.result # "wait" /\ messages' = messages
                   /\ (call.request \in Asynchronous /\ call.handle \in known) =>
                          /\ call.result = "wait"
                          /\ messages' = Append(messages, [handle |-> call.handle,
                                                           transaction |-> Len(returned'),
                                                           request |-> call.request])]_vars
    /\ [](\A i, j \in 1..Len(events) :
            i < j => events[i].transaction < events[j].transaction)
    /\ [](\A i \in 1..Len(events) : Queued(events[i].transaction))
    /\ \A t \in 1..MaxCalls :
            Pending(t) ~> (Answered(t) \/ ~Pending(t))


\* ---------------------------------------------------------------------
\* C35: the returned list has exactly one packet for each media record of
\* the file (not 'J', length at least 12), carrying the record's payload
\* length, payload offset and sequence number; it is not circular, its
\* head has no predecessor, its tail no successor, and x.next.prev = x.
\* C35_OnePacketPerRecord is the statement as claimed, which asks for the
\* record's sequence number in every packet; C35_OnePacketPerRecordRead is
\* the statement the code keeps: a record that is cut off after its length
\* field has no transport header in the file, and its packet carries the
\* sequence number left in the read buffer.
WellLinked ==
    LET n == Len(pkts)
    IN  /\ Len(ListOrder) = n
        /\ {ListOrder[k] : k \in 1..Len(ListOrder)} = 1..n
        /\ n > 0 => /\ list = ListOrder[1]
                    /\ pkts[list].prev = 0
                    /\ last = ListOrder[n]
                    /\ pkts[last].next = 0
        /\ \A x \in 1..n : pkts[x].next # 0 => pkts[pkts[x].next].prev = x

PacketFor(i, x) ==
    /\ pkts[x].offset = StartOf(file, i) + 8 + 2
    /\ pkts[x].len = file[i].len

RECURSIVE ResetOf(_, _, _, _, _)
ResetOf(f, i, ph, lastts, rst) ==
    IF i > Len(f) THEN rst
    ELSE LET r == f[i]
         IN  IF r.t = "E" /\ r.len = 5 /\ ~ph THEN ResetOf(f, i + 1, TRUE, lastts, rst)
             ELSE IF r.t = "E" /\ r.len < 12 THEN ResetOf(f, i + 1, ph, lastts, rst)
             ELSE LET consumed == r.t = "J" /\ r.len > 0 /\ ~ph
                      ts == Pass1Ts(f, i, consumed)
                  IN  ResetOf(f, i + 1, ph \/ consumed, ts, ResetAfter(rst, lastts, ts))

\* lines 2098-2214 with reset == 0: the list after records i.. of f
RECURSIVE ListOf(_, _, _)
ListOf(f, i, acc) ==
    IF i > Len(f) THEN acc
    ELSE LET r == f[i]
         IN  IF r.t = "J" \/ r.len < 12 THEN ListOf(f, i + 1, acc)
             ELSE LET raw == Pass2Rtp(r)
                      p == [seq |-> raw.seq, ts |-> raw.ts, len |-> r.len,
                            offset |-> StartOf(f, i) + 8 + 2,
                            next |-> 0, prev |-> 0]
                  IN  ListOf(f, i + 1, InsertOrdered(acc.pkts, acc.list, acc.last, p))

\* the (timestamp, sequence number) pairs of a list, from its head
KeysOf(pk, head) ==
    LET w == Walk(pk, head, Len(pk))
    IN  [k \in 1..Len(w) |-> <<pk[w[k]].ts, pk[w[k]].seq>>]

KeysOfFile(f) ==
    LET acc == ListOf(f, 1, [pkts |-> <<>>, list |-> 0, last |-> 0])
    IN  KeysOf(acc.pkts, acc.list)

NoResetIn(f) == ResetOf(f, 1, FALSE, Zero, Zero) = Zero

MediaOf(f) == SelectSeq(f, LAMBDA r : r.t # "J" /\ r.len >= 12)
HeadOf(f) == SelectSeq(f, LAMBDA r : ~(r.t # "J" /\ r.len >= 12))

\* the files with the header of f and the media records of f in any order
Reordered(f) ==
    LET m == MediaOf(f)
    IN  {HeadOf(f) \o [k \in 1..Len(m) |-> m[pi[k]]] : pi \in Permutations(1..Len(m))}

DistinctKeys(f) ==
    \A i, j \in MediaIdx(f) : (i # j) => <<f[i].ts, f[i].seq>> # <<f[j].ts, f[j].seq>>

\* the wraparound-aware comparison is a strict total order on the sequence
\* numbers of the media records of f that share a timestamp
SeqOrdered(f) ==
    \A i, j, k \in MediaIdx(f) :
        (f[i].ts = f[j].ts /\ f[j].ts = f[k].ts) =>
            /\ (f[i].seq # f[j].seq) =>
                  (SeqPrecedes(f[i].seq, f[j].seq) # SeqPrecedes(f[j].seq, f[i].seq))
            /\ (SeqPrecedes(f[i].seq, f[j].seq) /\ SeqPrecedes(f[j].seq, f[k].seq))
                  => SeqPrecedes(f[i].seq, f[k].seq)

\* C36: with no timestamp reset detected, two files with the same media
\* records, of pairwise distinct (timestamp, sequence number), in different
\* file orders give lists with the same sequence of (timestamp, sequence
\* number) pairs.  C36_OrderOfFileIrrelevant is the statement as claimed;
\* C36_OrderOfFileIrrelevantIfOrdered adds that the comparison of sequence
\* numbers is a strict total order among the records of one timestamp.
C36_OrderOfFileIrrelevant ==
    (Returned /\ Whole(file) /\ DistinctKeys(file) /\ reset = Zero) =>
        /\ NoResetIn(file)
        /\ KeysOfFile(file) = KeysOf(pkts, list)
        /\ \A g \in Reordered(file) :
              NoResetIn(g) => KeysOfFile(g) = KeysOf(pkts, list)

C36_OrderOfFileIrrelevantIfOrdered ==
    (Returned /\ Whole(file) /\ DistinctKeys(file) /\ reset = Zero) =>
        /\ NoResetIn(file)
        /\ KeysOfFile(file) = KeysOf(pkts, list)
        /\ SeqOrdered(file) =>
              \A g \in Reordered(file) :
                  NoResetIn(g) => KeysOfFile(g) = KeysOf(pkts, list)

\* three records of one timestamp, written with the last of the list first,
\* and another file order that detects no reset either
C36_Witness ==
    /\ Returned /\ Whole(file) /\ DistinctKeys(file) /\ reset = Zero
    /\ SeqOrdered(file)
    /\ Len(pkts) = 3
    /\ pkts[1].ts = pkts[2].ts /\ pkts[2].ts = pkts[3].ts
    /\ pkts[1].next = 0
    /\ list = 3
    /\ \E g \in Reordered(file) : g # file /\ NoResetIn(g)


C37_SessionsMutexReleased == ~leaked


\* ---------------------------------------------------------------------
\* C38: after any sequence of record, stop, hangup and destroy operations
\* every recording in the registry is the current recording of a session
\* that is still in the sessions table; none stays registered once no
\* session points to it.
C38_RegisteredIsCurrent ==
    \A k \in DOMAIN recordings :
        recordings[k] # 0 =>
            \E h \in Handles : sessions[h].present /\ sessions[h].recording = recordings[k]


AudioDue ==
    /\ audio # 0
    /\ \/ audio = aframes.list
       \/ ~TooEarly(Passed(Now, abefore), TsDiff(aframes, audio, Akhz(audio_pt)))

VideoDue ==
    /\ video # 0
    /\ \/ video = vframes.list
       \/ ~TooEarly(Passed(Now, vbefore), TsDiff(vframes, video, Vkhz))

\* the steps of one tick
AudioStep == pt_pc = "audio" /\ pt_pc' = "video"
VideoStep == pt_pc = "video" /\ pt_pc' = "top"

\* C33: the thread sleeps (for the 5 ms it asks for, or longer) before a tick
\* exactly when the tick before relayed nothing on either track, and never
\* after a tick in which a track relayed a packet; within a tick each track
\* is looked at on its own: a track that is due relays whatever the other
\* track did in that tick.
C33_SleepOnlyAfterIdleTick ==
    /\ [][AudioStep => /\ asent' = (arelayed' # arelayed)
                       /\ (arelayed' # arelayed) = AudioDue
                       /\ vrelayed' = vrelayed]_vars
    /\ [][VideoStep => /\ vsent' = (vrelayed' # vrelayed)
                       /\ (vrelayed' # vrelayed) = VideoDue
                       /\ asent' = asent
                       /\ arelayed' = arelayed]_vars
    /\ [][(pt_pc = "top" /\ pt_pc' \in {"sleep", "audio"})
            => ((pt_pc' = "sleep") = (~asent /\ ~vsent))]_vars
    /\ [][(clock' # clock) => (pt_pc = "sleep" /\ clock' >= clock + 5000)]_vars

\* a tick in which the audio track was not yet due and the video track
\* relayed; the thread had slept before
C33_Witness ==
    /\ pt_pc = "top"
    /\ LoopCondition
    /\ ~asent /\ vsent
    /\ audio # 0 /\ audio # aframes.list
    /\ Len(vrelayed) > 1
    /\ clock \notin StartClocks


\* ---------------------------------------------------------------------
\* the flags of the while condition have their live values
NotCancelled == ~destroyed /\ active /\ ~rec_destroyed

\* the thread has left the loop with every packet of both lists relayed
AllRelayed ==
    /\ pt_pc = "leave"
    /\ arelayed = OrderOf(aframes)
    /\ vrelayed = OrderOf(vframes)

\* the clock of the model has reached its bound: no sleep can return
ClockStopped == pt_pc = "sleep" /\ clock + 5000 > MaxClock

\* C32: a thread in its loop whose session is not cancelled, and for which
\* time goes on, relays every packet of both lists (the track that is
\* exhausted is skipped in each tick while the other goes on) and then
\* leaves the loop and ends.
C32_RelaysAllAndEnds ==
    /\ (pt_pc = "top" /\ NotCancelled) ~> (AllRelayed \/ ~NotCancelled \/ ClockStopped)
    /\ AllRelayed ~> (pt_pc = "done")
    /\ [][(AudioStep /\ audio = 0) => (audio' = 0 /\ arelayed' = arelayed /\ video' = video)]_vars
    /\ [][(VideoStep /\ video = 0) => (video' = 0 /\ vrelayed' = vrelayed /\ audio' = audio)]_vars

\* the video list was exhausted first and the audio track went on to its
\* end; the session was never cancelled
C32_Witness ==
    /\ AllRelayed
    /\ NotCancelled
    /\ Len(arelayed) = 2
    /\ Len(vrelayed) = 4
    /\ aframes.pkts[arelayed[2]].ts # aframes.pkts[arelayed[1]].ts


(***************************************************************************)
(* The recorders of a session: the handler thread creates them, the core's *)
(* incoming_rtp callback writes to them, and the hangup closes them under  *)
(* session->rec_mutex.                                                     *)
(***************************************************************************)
MaxRecorders == 4

\* an access to a recorder handle, with the holder of rec_mutex at that moment
Touch(op, by, state) == [op |-> op, by |-> by, mutex |-> rmutex, state |-> state]

\* what a call on recorder rc finds
StateOf(rc) == IF rc = 0 THEN "null" ELSE recorders[rc]

\* lines 1414-1435 and 1892: a "record" request for a new recording; the
\* handler assigns session->arc and session->vrc (janus_recorder_create)
\* holding recordings_mutex, and rec_mutex is not taken
RcRecord ==
    /\ ~rsess.destroyed
    /\ Len(recorders) + 2 <= MaxRecorders
    /\ recorders' = recorders \o <<"open", "open">>
    /\ rsess' = [rsess EXCEPT !.arc = Len(recorders) + 1,
                              !.vrc = Len(recorders) + 2,
                              !.recorder = TRUE,
                              !.hangingup = 0]
    /\ touch' = Touch("assign", "handler", "open")
    /\ UNCHANGED <<rmutex, rtp, hup>>
    /\ UNCHANGED <<gfvars, sessvars, ptvars, rgvars, ltvars, exvars, pcvars, owvars, aqvars>>

\* lines 1098-1125, incoming_rtp up to the evaluation of the argument
\* 'video ? session->vrc : session->arc'; no mutex is taken
RtpRead(is_video) ==
    /\ rmutex' = rmutex
    /\ rtp' = [pc |-> "save", video |-> is_video,
               rc |-> IF is_video THEN rsess.vrc ELSE rsess.arc]

RcRtpRead ==
    /\ rtp.pc = "idle"
    /\ ~rsess.destroyed
    /\ rsess.recorder
    /\ \E is_video \in BOOLEAN : RtpRead(is_video)
    /\ UNCHANGED <<rsess, recorders, hup, touch>>
    /\ UNCHANGED <<gfvars, sessvars, ptvars, rgvars, ltvars, exvars, pcvars, owvars, aqvars>>

\* line 1125: janus_recorder_save_frame on the handle that was read
RcRtpSave ==
    /\ rtp.pc = "save"
    /\ touch' = Touch("save", "rtp", StateOf(rtp.rc))
    /\ rtp' = NoRtp
    /\ rmutex' = IF rmutex = "rtp" THEN "free" ELSE rmutex
    /\ UNCHANGED <<rsess, recorders, hup>>
    /\ UNCHANGED <<gfvars, sessvars, ptvars, rgvars, ltvars, exvars, pcvars, owvars, aqvars>>

\* lines 1184-1210 (called from hangup_media, 1169-1174, or destroy_session,
\* 819-837): the first hangup since the last negotiation locks rec_mutex
RcHangupLock ==
    /\ hup.pc = "idle"
    /\ ~rsess.destroyed
    /\ \E destroy \in BOOLEAN :
        IF rsess.hangingup # 0
        THEN /\ rsess' = [rsess EXCEPT !.destroyed = destroy]
             /\ UNCHANGED <<rmutex, hup>>
        ELSE /\ rmutex = "free"
             /\ rmutex' = "hangup"
             /\ rsess' = [rsess EXCEPT !.hangingup = 1]
             /\ hup' = [pc |-> "audio", destroy |-> destroy]
    /\ UNCHANGED <<recorders, rtp, touch>>
    /\ UNCHANGED <<gfvars, sessvars, ptvars, rgvars, ltvars, exvars, pcvars, owvars, aqvars>>

\* janus_recorder_close and janus_recorder_destroy on recorder rc
Closed_(rc) == IF rc = 0 THEN recorders ELSE [recorders EXCEPT ![rc] = "destroyed"]

\* lines 1211-1216: the audio recorder is closed and destroyed, session->arc = NULL
RcHangupAudio ==
    /\ hup.pc = "audio"
    /\ recorders' = Closed_(rsess.arc)
    /\ touch' = IF rsess.arc # 0 THEN Touch("destroy", "hangup", StateOf(rsess.arc)) ELSE touch
    /\ rsess' = [rsess EXCEPT !.arc = 0]
    /\ hup' = [hup EXCEPT !.pc = "video"]
    /\ UNCHANGED <<rmutex, rtp>>
    /\ UNCHANGED <<gfvars, sessvars, ptvars, rgvars, ltvars, exvars, pcvars, owvars, aqvars>>

\* lines 1217-1229 and 834: the video recorder is closed and destroyed,
\* session->vrc = NULL, rec_mutex is unlocked; destroy_session then removes
\* the session
RcHangupVideo ==
    /\ hup.pc = "video"
    /\ recorders' = Closed_(rsess.vrc)
    /\ touch' = IF rsess.vrc # 0 THEN Touch("destroy", "hangup", StateOf(rsess.vrc)) ELSE touch
    /\ rsess' = [rsess EXCEPT !.vrc = 0, !.destroyed = hup.destroy]
    /\ rmutex' = "free"
    /\ hup' = NoHup
    /\ UNCHANGED rtp
    /\ UNCHANGED <<gfvars, sessvars, ptvars, rgvars, ltvars, exvars, pcvars, owvars, aqvars>>

InitRecorder ==
    /\ IdleRecorder
    /\ IdleFrames
    /\ IdlePlayout
    /\ IdleRegistry
    /\ IdleLifetime
    /\ IdleCodec
    /\ IdleOwner
    /\ IdleAsync

NextRecorder ==
    \/ RcRecord
    \/ RcRtpRead
    \/ RcRtpSave
    \/ RcHangupLock
    \/ RcHangupAudio
    \/ RcHangupVideo

SpecRecorder == InitRecorder /\ [][NextRecorder]_vars

\* C31: the recorder handles are only assigned, used to save a frame, closed
\* or destroyed with rec_mutex held by the code that does it, and a frame is
\* never saved to a recorder that a hangup has closed and destroyed.
C31_RecordersUnderMutex ==
    touch.op # "none" =>
        /\ touch.mutex = touch.by
        /\ touch.op = "save" => touch.state # "destroyed"

====
